---- MODULE Spec2Model ----
(***************************************************************************)
(* Model of the retro-audio synthesis and scheduling engine:               *)
(* Voice / VoicePool lifecycle, the ADSR envelope writing to the gain      *)
(* parameter, the deferred release timers, and the pattern Sequencer.      *)
(*                                                                         *)
(* Units: times are integer milliseconds (context.currentTime and the      *)
(* setTimeout clock are the same clock); amplitudes are integer            *)
(* thousandths (1000 = 1.0, MIN_EXPONENTIAL_VALUE = 0.001 = 1).            *)
(***************************************************************************)
EXTENDS Integers, Sequences, FiniteSets, TLC

\* ------------------------------------------------------------------------
\* Bounds of the model
\* ------------------------------------------------------------------------
MaxVoices == 2
MaxTicks == 3
MaxTimers == 2
SeqTicks == 3
MaxCalls == 3
MaxLaneLen == 3
DurSteps == 9
SongTicks == 3
SongCalls == 2
EnvTicks == 2
CycleTicks == 4
MaxAcquires == 5
MaxDepth == 4     \* nested stop() calls the call stack has room for
MaxAudioCalls == 5
MaxSounds == 2
SfxTicks == 4

\* ------------------------------------------------------------------------
\* Values fixed by the program
\* ------------------------------------------------------------------------
SCHEDULER_INTERVAL == 100
SCHEDULE_AHEAD_TIME == 1100
MIN_BPM == 30
MAX_BPM == 300
SecondsPerMinute == 60
MIN_EXPONENTIAL_VALUE == 1
MsPerSecond == 1000
DefaultArpeggioSpeed == 12
DefaultArpeggioDuration == 2
LFSR_LONG_LENGTH == 32767
LFSR_SHORT_LENGTH == 127
WAVETABLE_SIZE == 32
MantissaBits == 53       \* significant bits of a number of the language
WAVETABLE_MAX_VALUE == 15

AmpOne == MsPerSecond * MIN_EXPONENTIAL_VALUE
Quantum == 2 * SCHEDULER_INTERVAL
MaxTime == MaxTicks * Quantum

NULL == "null"
UNDEF == "undefined"

Max(a, b) == IF a > b THEN a ELSE b
Min(a, b) == IF a < b THEN a ELSE b

\* ------------------------------------------------------------------------
\* Instrument data handed to the engine (InstrumentData / EnvelopeConfig)
\* ------------------------------------------------------------------------
Instruments ==
  [ lead |-> [ channel |-> "pulse1",
               envelope |-> [ attack |-> 100, decay |-> 100, sustain |-> 500,
                              release |-> 200, attackCurve |-> "linear",
                              decayCurve |-> "linear", releaseCurve |-> "linear" ],
               volume |-> 1000 ],
    hat  |-> [ channel |-> "noise",
               envelope |-> [ attack |-> 0, decay |-> 0, sustain |-> 1000,
                              release |-> 0, attackCurve |-> UNDEF,
                              decayCurve |-> UNDEF, releaseCurve |-> UNDEF ],
               volume |-> 500 ],
    \* a self-terminating effect: the envelope decays to sustain 0
    blip |-> [ channel |-> "pulse1",
               envelope |-> [ attack |-> 0, decay |-> 100, sustain |-> 0,
                              release |-> 200, attackCurve |-> "linear",
                              decayCurve |-> "linear", releaseCurve |-> "linear" ],
               volume |-> 1000 ] ]

InstrumentIds == DOMAIN Instruments

Velocities == {AmpOne}

\* ------------------------------------------------------------------------
\* AudioParam (gain): value plus the sorted list of scheduled events
\* ------------------------------------------------------------------------
NewParam(v) == [value |-> v, events |-> <<>>]

\* push + sort by time (stable): the event goes after every event whose
\* time is <= its own
InsertEvent(events, e) ==
  LET before == SelectSeq(events, LAMBDA x : x.time <= e.time)
      after  == SelectSeq(events, LAMBDA x : x.time > e.time)
  IN  before \o <<e>> \o after

ScheduleEvent(p, type, value, time, clock) ==
  [ value  |-> IF time <= clock THEN value ELSE p.value,
    events |-> InsertEvent(p.events, [type |-> type, value |-> value, time |-> time]) ]

setValueAtTime(p, value, time, clock) ==
  ScheduleEvent(p, "setValueAtTime", value, time, clock)

linearRampToValueAtTime(p, value, time, clock) ==
  ScheduleEvent(p, "linearRampToValueAtTime", value, time, clock)

exponentialRampToValueAtTime(p, value, time, clock) ==
  ScheduleEvent(p, "exponentialRampToValueAtTime", value, time, clock)

cancelScheduledValues(p, startTime) ==
  [p EXCEPT !.events = SelectSeq(p.events, LAMBDA x : x.time < startTime)]

\* the events whose time has come are consumed in order; the value is the
\* value of the last of them
processScheduledEventsUntil(p, time) ==
  LET due  == SelectSeq(p.events, LAMBDA x : x.time <= time)
      rest == SelectSeq(p.events, LAMBDA x : x.time > time)
  IN  [ value  |-> IF due = <<>> THEN p.value ELSE due[Len(due)].value,
        events |-> rest ]

\* ------------------------------------------------------------------------
\* Envelope
\* ------------------------------------------------------------------------
NewEnvelope(config) ==
  [ config EXCEPT
      !.attackCurve  = IF @ = UNDEF THEN "linear" ELSE @,
      !.decayCurve   = IF @ = UNDEF THEN "exponential" ELSE @,
      !.releaseCurve = IF @ = UNDEF THEN "exponential" ELSE @ ]

\* (variant: the end of the attack phase is returned)
triggerAttack_NoDecay(env, param, startTime, velocity, clock) ==
  LET peakLevel == velocity
      p0 == cancelScheduledValues(param, startTime)
      p1 == setValueAtTime(p0, 0, startTime, clock)
      attackEnd == startTime + env.attack
  IN  [ param |-> linearRampToValueAtTime(p1, peakLevel, attackEnd, clock),
        time |-> attackEnd ]

\* returns [param, time]: the gain parameter after the writes, and decayEnd
triggerAttack(env, param, startTime, velocity, clock) ==
  LET peakLevel    == velocity
      sustainLevel == (env.sustain * velocity) \div AmpOne
      p0 == cancelScheduledValues(param, startTime)
      p1 == setValueAtTime(p0, 0, startTime, clock)
      attackEnd == startTime + env.attack
      p2 == IF env.attackCurve = "exponential" /\ env.attack > 1
            THEN exponentialRampToValueAtTime(
                   setValueAtTime(p1, MIN_EXPONENTIAL_VALUE, startTime, clock),
                   Max(peakLevel, MIN_EXPONENTIAL_VALUE), attackEnd, clock)
            ELSE linearRampToValueAtTime(p1, peakLevel, attackEnd, clock)
      decayEnd == attackEnd + env.decay
      p3 == IF env.decayCurve = "exponential" /\ env.decay > 1
               /\ sustainLevel > MIN_EXPONENTIAL_VALUE
            THEN exponentialRampToValueAtTime(
                   p2, Max(sustainLevel, MIN_EXPONENTIAL_VALUE), decayEnd, clock)
            ELSE linearRampToValueAtTime(p2, sustainLevel, decayEnd, clock)
  IN  [param |-> p3, time |-> decayEnd]

\* (variant: the exponential release ends at the floor value)
triggerRelease_NoSnap(env, param, startTime, clock) ==
  LET p0 == cancelScheduledValues(param, startTime)
      currentValue == IF p0.value <= MIN_EXPONENTIAL_VALUE
                      THEN MIN_EXPONENTIAL_VALUE ELSE p0.value
      p1 == setValueAtTime(p0, currentValue, startTime, clock)
      releaseEnd == startTime + env.release
  IN  [ param |-> IF env.releaseCurve = "exponential" /\ env.release > 1
                     /\ currentValue > MIN_EXPONENTIAL_VALUE
                  THEN exponentialRampToValueAtTime(p1, MIN_EXPONENTIAL_VALUE,
                                                    releaseEnd, clock)
                  ELSE linearRampToValueAtTime(p1, 0, releaseEnd, clock),
        time |-> releaseEnd ]

\* returns [param, time]: the gain parameter after the writes, and releaseEnd
triggerRelease(env, param, startTime, clock) ==
  LET p0 == cancelScheduledValues(param, startTime)
      currentValue == IF p0.value <= MIN_EXPONENTIAL_VALUE
                      THEN MIN_EXPONENTIAL_VALUE ELSE p0.value
      p1 == setValueAtTime(p0, currentValue, startTime, clock)
      releaseEnd == startTime + env.release
      p2 == IF env.releaseCurve = "exponential" /\ env.release > 1
               /\ currentValue > MIN_EXPONENTIAL_VALUE
            THEN setValueAtTime(
                   exponentialRampToValueAtTime(p1, MIN_EXPONENTIAL_VALUE, releaseEnd, clock),
                   0, releaseEnd, clock)
            ELSE linearRampToValueAtTime(p1, 0, releaseEnd, clock)
  IN  [param |-> p2, time |-> releaseEnd]

\* ------------------------------------------------------------------------
\* Channel (Pulse / Wave / Noise): the running signal source of a voice
\* ------------------------------------------------------------------------
ChannelKind(channelType) ==
  CASE channelType \in {"pulse1", "pulse2"} -> "pulse"
    [] channelType = "wave"  -> "wave"
    [] channelType = "noise" -> "noise"

NewChannel(kind) == [kind |-> kind, oscillator |-> FALSE]

ChannelNoteOn(c) == [c EXCEPT !.oscillator = TRUE]

ChannelNoteOff(c) == [c EXCEPT !.oscillator = FALSE]

\* ------------------------------------------------------------------------
\* Pending setTimeout timers.  The Voice methods below take and return a
\* record W of the mutable state; they read and write W.voices and W.timers.
\* ------------------------------------------------------------------------
TimerIds(ts) == {t.id : t \in ts}

\* setTimeout never hands out an id that is still pending or still held in
\* Scheduler.timerId
NewTimerId(W) ==
  LET used == TimerIds(W.timers) \cup {W.scheduler.timerId}
  IN  CHOOSE i \in 1..(Cardinality(used) + 1) : i \notin used

clearTimeout(ts, id) == {t \in ts : t.id # id}

\* ------------------------------------------------------------------------
\* Voice
\* ------------------------------------------------------------------------
\* channel = null and envelope = null
NoChannel == [kind |-> NULL, oscillator |-> FALSE]

NoEnvelope ==
  [ attack |-> 0, decay |-> 0, sustain |-> 0, release |-> 0,
    attackCurve |-> NULL, decayCurve |-> NULL, releaseCurve |-> NULL ]

NewVoice ==
  [ channel |-> NoChannel, envelope |-> NoEnvelope, isActive |-> FALSE, startTime |-> 0,
    gain |-> NewParam(0), currentInstrument |-> NULL, releaseTimeoutId |-> 0,
    \* history of the note calls: "none", "on" after noteOn, "off" after
    \* noteOff, "released" once a release timer has fired after a noteOff,
    \* "stopped" after stop()
    phase |-> "none",
    \* the pattern lane the Sequencer last configured the voice for, "none"
    \* when it was last configured by another caller
    lane |-> "none" ]

currentAmplitude(voice) == voice.gain.value

disposeChannel(voice) ==
  IF voice.channel # NoChannel THEN [voice EXCEPT !.channel = NoChannel] ELSE voice

\* configure(instrument): the channel and the envelope are replaced; the
\* pending release timer and releaseTimeoutId are not touched.
\* (preConf marks the timers that were pending when configure returned.)
VoiceConfigure(W, v, instrumentId) ==
  LET instrument == Instruments[instrumentId]
      v0 == disposeChannel(W.voices[v])
      v1 == [v0 EXCEPT !.currentInstrument = instrumentId,
                       !.lane = "none",
                       !.channel = NewChannel(ChannelKind(instrument.channel)),
                       !.envelope = NewEnvelope(instrument.envelope)]
  IN  [W EXCEPT !.voices = [W.voices EXCEPT ![v] = v1],
                 !.timers = {IF t.kind = "release" /\ t.voice = v
                             THEN [t EXCEPT !.preConf = TRUE] ELSE t : t \in W.timers}]

VoiceConfigured(voice) == voice.channel # NoChannel /\ voice.envelope # NoEnvelope

\* (variant: the voice keeps the start time it had)
VoiceNoteOn_KeepsStartTime(W, v, velocity, time, clock) ==
  LET voice == W.voices[v]
      ts == IF voice.releaseTimeoutId # 0
            THEN clearTimeout(W.timers, voice.releaseTimeoutId) ELSE W.timers
      volume == IF voice.currentInstrument # NULL
                THEN Instruments[voice.currentInstrument].volume ELSE AmpOne
      adjustedVelocity == (velocity * volume) \div AmpOne
      att == triggerAttack(voice.envelope, voice.gain, time, adjustedVelocity, clock)
      v1 == [voice EXCEPT !.releaseTimeoutId = 0,
                          !.phase = "on",
                          !.isActive = TRUE,
                          !.channel = ChannelNoteOn(@),
                          !.gain = att.param]
  IN  [W EXCEPT !.voices = [W.voices EXCEPT ![v] = v1], !.timers = ts]

\* noteOn(frequency, velocity, time) on a configured voice, lines 108-125
VoiceNoteOn(W, v, velocity, time, clock) ==
  LET voice == W.voices[v]
      ts == IF voice.releaseTimeoutId # 0
            THEN clearTimeout(W.timers, voice.releaseTimeoutId) ELSE W.timers
      volume == IF voice.currentInstrument # NULL
                THEN Instruments[voice.currentInstrument].volume ELSE AmpOne
      adjustedVelocity == (velocity * volume) \div AmpOne
      att == triggerAttack(voice.envelope, voice.gain, time, adjustedVelocity, clock)
      v1 == [voice EXCEPT !.releaseTimeoutId = 0,
                          !.phase = "on",
                          !.isActive = TRUE,
                          !.startTime = time,
                          !.channel = ChannelNoteOn(@),
                          !.gain = att.param]
  IN  [W EXCEPT !.voices = [W.voices EXCEPT ![v] = v1], !.timers = ts]

\* (variant: the configuration is checked after the voice was marked active)
noteOn_LateCheck(W, v, velocity, time, clock) ==
  IF ~VoiceConfigured(W.voices[v])
  THEN [ W |-> [W EXCEPT !.voices[v].isActive = TRUE, !.voices[v].startTime = time],
         error |-> "Voice not configured. Call configure() first." ]
  ELSE [ W |-> VoiceNoteOn(W, v, velocity, time, clock), error |-> "none" ]

\* noteOn(frequency, velocity, time): [W, error]
noteOn(W, v, velocity, time, clock) ==
  IF ~VoiceConfigured(W.voices[v])
  THEN [W |-> W, error |-> "Voice not configured. Call configure() first."]
  ELSE [W |-> VoiceNoteOn(W, v, velocity, time, clock), error |-> "none"]

\* noteOff(time): release ramp plus the deferred transition to Idle.  The
\* new timer's id overwrites releaseTimeoutId; a timer already pending is
\* not cleared.
VoiceNoteOff(W, v, releaseTime, clock) ==
  LET voice == W.voices[v]
      rel == triggerRelease(voice.envelope, voice.gain, releaseTime, clock)
      endTime == rel.time
      releaseDelay == Max(0, endTime - clock)
      id == NewTimerId(W)
      timer == [ id |-> id, kind |-> "release", due |-> clock + releaseDelay,
                 voice |-> v, endTime |-> endTime,
                 preStop |-> FALSE, preConf |-> FALSE ]
      v1 == [voice EXCEPT !.gain = rel.param, !.releaseTimeoutId = id,
                          !.phase = "off"]
  IN  IF ~VoiceConfigured(voice) THEN W
      ELSE [W EXCEPT !.voices = [W.voices EXCEPT ![v] = v1],
                     !.timers = W.timers \cup {timer}]

\* stop(): force-stop.  (preStop marks the timers of this voice that are
\* still pending when stop returns.)
VoiceStop(W, v, clock) ==
  LET voice == W.voices[v]
      ts == IF voice.releaseTimeoutId # 0
            THEN clearTimeout(W.timers, voice.releaseTimeoutId) ELSE W.timers
      v1 == [voice EXCEPT
               !.releaseTimeoutId = 0,
               !.phase = "stopped",
               !.isActive = FALSE,
               !.channel = IF @ # NoChannel THEN ChannelNoteOff(@) ELSE @,
               !.gain = setValueAtTime(cancelScheduledValues(@, clock), 0, clock, clock)]
  IN  [W EXCEPT !.voices = [W.voices EXCEPT ![v] = v1],
                 !.timers = {IF t.kind = "release" /\ t.voice = v
                             THEN [t EXCEPT !.preStop = TRUE] ELSE t : t \in ts}]

\* (variant: the callback only retires its timer)
ReleaseTimeout_Inert(W, t) == [W EXCEPT !.timers = W.timers \ {t}]

\* the callback of the timer set by noteOff
ReleaseTimeout(W, t) ==
  LET voice == W.voices[t.voice]
      v1 == [voice EXCEPT
               !.isActive = FALSE,
               !.channel = IF @ # NoChannel THEN ChannelNoteOff(@) ELSE @,
               !.releaseTimeoutId = 0,
               !.phase = IF @ = "off" THEN "released" ELSE @]
  IN  [W EXCEPT !.voices = [W.voices EXCEPT ![t.voice] = v1],
                 !.timers = W.timers \ {t}]

\* ------------------------------------------------------------------------
\* VoicePool
\* ------------------------------------------------------------------------
StealingModes == {"oldest", "quietest", "none"}

Indices(vs) == 1..Len(vs)

ActiveVoices(vs) == SelectSeq([i \in Indices(vs) |-> i], LAMBDA i : vs[i].isActive)

\* Array.prototype.reduce without an initial value
RECURSIVE ReduceFrom(_, _, _, _)
ReduceFrom(Pick(_, _), xs, i, acc) ==
  IF i > Len(xs) THEN acc ELSE ReduceFrom(Pick, xs, i + 1, Pick(acc, xs[i]))

Reduce(Pick(_, _), xs) == ReduceFrom(Pick, xs, 2, xs[1])

\* (variant: both comparisons reversed)
StealVictim_Reversed(vs, mode) ==
  LET activeVoices == ActiveVoices(vs)
      Newer(a, b)  == IF vs[a].startTime > vs[b].startTime THEN a ELSE b
      Louder(a, b) == IF currentAmplitude(vs[a]) > currentAmplitude(vs[b]) THEN a ELSE b
  IN  IF mode = "none" THEN 0
      ELSE IF Len(activeVoices) = 0 THEN (IF Len(vs) > 0 THEN 1 ELSE 0)
      ELSE IF mode = "oldest" THEN Reduce(Newer, activeVoices)
      ELSE Reduce(Louder, activeVoices)

\* the index of the victim, or 0 for null; the victim is not yet stopped
StealVictim(vs, mode) ==
  LET activeVoices == ActiveVoices(vs)
      Older(a, b)   == IF vs[a].startTime < vs[b].startTime THEN a ELSE b
      Quieter(a, b) == IF currentAmplitude(vs[a]) < currentAmplitude(vs[b]) THEN a ELSE b
  IN  IF mode = "none" THEN 0
      ELSE IF Len(activeVoices) = 0 THEN (IF Len(vs) > 0 THEN 1 ELSE 0)
      ELSE IF mode = "oldest" THEN Reduce(Older, activeVoices)
      ELSE Reduce(Quieter, activeVoices)

\* (variant: mode 'none' steals like 'oldest')
stealVoice_AlwaysSteals(W, mode, clock) ==
  LET victim == StealVictim(W.voices, IF mode = "none" THEN "oldest" ELSE mode)
  IN  IF victim = 0 THEN [W |-> W, voice |-> 0, how |-> "fail"]
      ELSE [W |-> VoiceStop(W, victim, clock), voice |-> victim, how |-> "stolen"]

\* stealVoice(): [W, voice]; voice = 0 is null
stealVoice(W, mode, clock) ==
  LET victim == StealVictim(W.voices, mode)
  IN  IF victim = 0 THEN [W |-> W, voice |-> 0, how |-> "fail"]
      ELSE IF Len(ActiveVoices(W.voices)) = 0
           THEN [W |-> W, voice |-> victim, how |-> "stolen"]
      ELSE [W |-> VoiceStop(W, victim, clock), voice |-> victim, how |-> "stolen"]

\* (variant: off by one)
BelowCapacity_Inclusive(vs, maxVoices) == Len(vs) <= maxVoices

BelowCapacity(vs, maxVoices) == Len(vs) < maxVoices

\* (variant: a voice is constructed before an inactive one is looked for)
acquire_NewFirst(W, maxVoices, mode, clock) ==
  LET inactive == {i \in Indices(W.voices) : ~W.voices[i].isActive}
  IN  IF BelowCapacity(W.voices, maxVoices)
      THEN [ W |-> [W EXCEPT !.voices = Append(@, NewVoice)], how |-> "new",
             voice |-> Len(W.voices) + 1 ]
      ELSE IF inactive # {}
      THEN [ W |-> W, how |-> "idle",
             voice |-> CHOOSE i \in inactive : \A j \in inactive : i <= j ]
      ELSE stealVoice(W, mode, clock)

\* acquire(): [W, voice, how]
acquire(W, maxVoices, mode, clock) ==
  LET inactive == {i \in Indices(W.voices) : ~W.voices[i].isActive}
  IN  IF inactive # {}
      THEN [ W |-> W, how |-> "idle",
             voice |-> CHOOSE i \in inactive : \A j \in inactive : i <= j ]
      ELSE IF BelowCapacity(W.voices, maxVoices)
      THEN [ W |-> [W EXCEPT !.voices = Append(@, NewVoice)], how |-> "new",
             voice |-> Len(W.voices) + 1 ]
      ELSE stealVoice(W, mode, clock)

\* ------------------------------------------------------------------------
\* Clock
\* ------------------------------------------------------------------------
clampBpm(bpm) == Min(Max(bpm, MIN_BPM), MAX_BPM)

NewClock(bpm, stepsPerBeat) ==
  [bpm |-> clampBpm(bpm), stepsPerBeat |-> Max(1, stepsPerBeat)]

secondsPerStep(clock) ==
  ((SecondsPerMinute * MsPerSecond) \div clock.bpm) \div clock.stepsPerBeat

stepsToSeconds(clock, steps) == steps * secondsPerStep(clock)

\* ------------------------------------------------------------------------
\* Pattern data.  An optional field is <<>> when absent, <<x>> when given.
\* ------------------------------------------------------------------------
CHANNEL_NAMES == <<"pulse1", "pulse2", "wave", "noise">>

Lanes == {CHANNEL_NAMES[i] : i \in DOMAIN CHANNEL_NAMES}

NoteEvent(step, note, instrumentId, duration) ==
  [ step |-> step, note |-> note, instrumentId |-> instrumentId,
    duration |-> duration, volume |-> <<>> ]

\* index of the first element satisfying P, 0 when there is none
\* (Array.prototype.find)
FindFirst(xs, P(_)) ==
  LET idx == {i \in 1..Len(xs) : P(xs[i])}
  IN  IF idx = {} THEN 0 ELSE CHOOSE i \in idx : \A j \in idx : i <= j

\* ------------------------------------------------------------------------
\* Scheduler
\* ------------------------------------------------------------------------
NewScheduler == [isRunning |-> FALSE, timerId |-> 0]

SchedulerStop(S) ==
  [S EXCEPT !.scheduler = [isRunning |-> FALSE, timerId |-> 0],
            !.timers = IF S.scheduler.timerId # 0
                       THEN clearTimeout(@, S.scheduler.timerId) ELSE @]

\* ------------------------------------------------------------------------
\* Synth: a handle [id, voice] on a pool voice
\* ------------------------------------------------------------------------
NoSynth == [id |-> 0, voice |-> 0]

SynthNoteOn(S, synth, velocity, time, clock) ==
  VoiceNoteOn(S, synth.voice, velocity, time, clock)

SynthNoteOff(S, synth, releaseTime, clock) ==
  VoiceNoteOff(S, synth.voice, releaseTime, clock)

\* ------------------------------------------------------------------------
\* Sequencer
\* ------------------------------------------------------------------------
NewSequencer(pattern, bpm, loop) ==
  [ pattern |-> pattern,
    clock |-> NewClock(bpm, pattern.stepsPerBeat),
    isPlaying |-> FALSE, isPaused |-> FALSE,
    currentStep |-> 0, nextStepTime |-> 0, loop |-> loop,
    mutedChannels |-> {}, soloedChannels |-> {},
    activeVoices |-> <<>>,       \* Map in insertion order: [channel, synth]
    scheduledNoteOffs |-> {},    \* Map: [channel, step, id]
    \* the time at which the last step scheduled since stop() sounds
    \* (<<>>: no step scheduled since)
    lastStepTime |-> <<>> ]

\* Map.get / Map.delete / Map.set on activeVoices
ActiveGet(av, channel) ==
  LET i == FindFirst(av, LAMBDA e : e.channel = channel)
  IN  IF i = 0 THEN NoSynth ELSE av[i].synth

ActiveDelete(av, channel) == SelectSeq(av, LAMBDA e : e.channel # channel)

ActiveSet(av, channel, synth) ==
  LET i == FindFirst(av, LAMBDA e : e.channel = channel)
  IN  IF i = 0 THEN Append(av, [channel |-> channel, synth |-> synth])
      ELSE [av EXCEPT ![i].synth = synth]

\* (variant: solo is consulted before mute)
isChannelAudible_SoloFirst(seq, channel) ==
  IF Cardinality(seq.soloedChannels) > 0 THEN channel \in seq.soloedChannels
  ELSE channel \notin seq.mutedChannels

isChannelAudible(seq, channel) ==
  IF channel \in seq.mutedChannels THEN FALSE
  ELSE IF Cardinality(seq.soloedChannels) > 0 THEN channel \in seq.soloedChannels
  ELSE TRUE

\* (variant: only a later note, not a null note-off, ends the note)
calculateNoteDuration_NotesOnly(seq, channel, event, step) ==
  LET events == seq.pattern.channels[channel]
      next   == FindFirst(events, LAMBDA e : e.step > step /\ e.note # NULL)
  IN  IF event.duration # <<>> THEN stepsToSeconds(seq.clock, event.duration[1])
      ELSE IF next # 0 THEN stepsToSeconds(seq.clock, events[next].step - step)
      ELSE stepsToSeconds(seq.clock, seq.pattern.steps - step)

\* the sounding duration of a note, in ms
calculateNoteDuration(seq, channel, event, step) ==
  LET events == seq.pattern.channels[channel]
      next   == FindFirst(events, LAMBDA e : e.step > step)
  IN  IF event.duration # <<>> THEN stepsToSeconds(seq.clock, event.duration[1])
      ELSE IF next # 0 THEN stepsToSeconds(seq.clock, events[next].step - step)
      ELSE stepsToSeconds(seq.clock, seq.pattern.steps - step)

\* ids of the Synth objects still referenced
LiveSynthIds(S) ==
  {S.seq.activeVoices[i].synth.id : i \in DOMAIN S.seq.activeVoices}
    \cup {t.synth.id : t \in {u \in S.timers : u.kind = "noteOff"}}

NewSynthId(S) ==
  CHOOSE i \in 1..(Cardinality(LiveSynthIds(S)) + 1) : i \notin LiveSynthIds(S)

\* playNote, lines 272-293: track the synth as the lane's active voice and
\* set the note-off timer, replacing the one already kept under the key
\* `${channel}-${step}`.  (noteOns collects the lanes that got a noteOn.)
scheduleNoteOff(S, synth, channel, step, noteOffTime, clock) ==
  LET existingTimeout == {n \in S.seq.scheduledNoteOffs :
                            n.channel = channel /\ n.step = step}
      ts == {t \in S.timers : t.id \notin {n.id : n \in existingTimeout}}
      noteOffDelay == Max(0, noteOffTime - clock)
      id == NewTimerId([S EXCEPT !.timers = ts])
      timeout == [ id |-> id, kind |-> "noteOff", due |-> clock + noteOffDelay,
                   synth |-> synth, noteOffTime |-> noteOffTime,
                   channel |-> channel, step |-> step ]
  IN  [S EXCEPT
         !.noteOns = @ \cup {channel},
         !.seq.activeVoices = ActiveSet(@, channel, synth),
         !.timers = ts \cup {timeout},
         !.seq.scheduledNoteOffs =
            (@ \ existingTimeout) \cup {[channel |-> channel, step |-> step, id |-> id]}]

\* playNote, lines 261-293, once engine.createSynth has acquired `voice` and
\* left the state W: the Synth constructor configures the voice, then
\* synth.noteOn(note, volume, time)
\* playNote, line 261: the synth created for a note of lane `channel`
synthForLane(W, voice, channel) == [W EXCEPT !.voices[voice].lane = channel]

playNoteOn(W, voice, synthId, channel, event, time, step, clock) ==
  LET synth == [id |-> synthId, voice |-> voice]
      instrument == Instruments[event.instrumentId]
      volume == IF event.volume # <<>> THEN event.volume[1] ELSE instrument.volume
      noteDuration == calculateNoteDuration(W.seq, channel, event, step)
  IN  scheduleNoteOff(
        SynthNoteOn(synthForLane(VoiceConfigure(W, voice, event.instrumentId),
                                 voice, channel),
                    synth, volume, time, clock),
        synth, channel, step, time + noteDuration, clock)

\* playNote, lines 259-297, after the lane's previous note was released
\* (state S1): a failed acquisition (VoiceLimitReachedError) skips the note
playNoteNew(S1, channel, event, time, step, clock) ==
  LET r == acquire(S1, S1.pool.maxVoices, S1.pool.stealingMode, clock)
  IN  IF r.voice = 0 THEN S1
      ELSE playNoteOn(r.W, r.voice, NewSynthId(S1), channel, event, time, step, clock)

\* playNote, lines 247-251: the instrument is not found; the note is skipped
\* with a warning.  (skipped collects the lanes whose note was skipped so.)
instrumentNotFound(S, channel) == [S EXCEPT !.skipped = @ \cup {channel}]

\* (variant: a note whose instrument is not found ends the playback)
playNote_Fatal(S, channel, event, time, step, clock) ==
  LET existingVoice == ActiveGet(S.seq.activeVoices, channel)
  IN  IF event.instrumentId \notin InstrumentIds
      THEN [instrumentNotFound(S, channel) EXCEPT !.seq.isPlaying = FALSE]
      ELSE playNoteNew(IF existingVoice # NoSynth
                       THEN SynthNoteOff(S, existingVoice, time, clock) ELSE S,
                       channel, event, time, step, clock)

\* playNote(channel, event, time, step)
playNote(S, channel, event, time, step, clock) ==
  LET existingVoice == ActiveGet(S.seq.activeVoices, channel)
  IN  IF event.instrumentId \notin InstrumentIds THEN instrumentNotFound(S, channel)
      ELSE playNoteNew(IF existingVoice # NoSynth
                       THEN SynthNoteOff(S, existingVoice, time, clock) ELSE S,
                       channel, event, time, step, clock)

\* the body of scheduleStep's loop for one lane
scheduleLane(S, channelName, step, time, clock) ==
  LET events == S.seq.pattern.channels[channelName]
      e      == FindFirst(events, LAMBDA x : x.step = step)
      voice  == ActiveGet(S.seq.activeVoices, channelName)
  IN  IF ~isChannelAudible(S.seq, channelName) THEN S
      ELSE IF e = 0 THEN S
      ELSE IF events[e].note = NULL
      THEN IF voice # NoSynth
           THEN [SynthNoteOff(S, voice, time, clock) EXCEPT
                   !.seq.activeVoices = ActiveDelete(@, channelName)]
           ELSE S
      ELSE playNote(S, channelName, events[e], time, step, clock)

RECURSIVE scheduleLanes(_, _, _, _, _)
scheduleLanes(S, i, step, time, clock) ==
  IF i > Len(CHANNEL_NAMES) THEN S
  ELSE scheduleLanes(scheduleLane(S, CHANNEL_NAMES[i], step, time, clock),
                     i + 1, step, time, clock)

\* (early records that the step sounds no later than one scheduled before it)
scheduleStep(S, step, time, clock) ==
  scheduleLanes([S EXCEPT !.first = IF S.steps = 0 THEN step ELSE @,
                          !.early = @ \/ ( /\ S.seq.lastStepTime # <<>>
                                           /\ time <= S.seq.lastStepTime[1] ),
                          !.seq.lastStepTime = <<time>>],
                1, step, time, clock)

RECURSIVE releaseAllActive(_, _, _)
releaseAllActive(S, i, clock) ==
  IF i > Len(S.seq.activeVoices) THEN S
  ELSE releaseAllActive(SynthNoteOff(S, S.seq.activeVoices[i].synth, clock, clock),
                        i + 1, clock)

\* stop(), lines 160-175
stopSequencer(S, clock) ==
  LET S1 == [S EXCEPT !.seq.isPlaying = FALSE, !.seq.isPaused = FALSE,
                      !.seq.currentStep = 0, !.seq.lastStepTime = <<>>]
      S2 == SchedulerStop(S1)
      S3 == releaseAllActive(S2, 1, clock)
  IN  [S3 EXCEPT
         !.seq.activeVoices = <<>>,
         !.timers = {t \in @ : t.id \notin {n.id : n \in S3.seq.scheduledNoteOffs}},
         !.seq.scheduledNoteOffs = {}]

RECURSIVE handlePatternEnd(_, _)

\* stop(), line 177: this.onEnd?.() -- the caller's callback when the
\* Sequencer belongs to a PatternPlayer (PatternPlayer.ts, line 40), replaced
\* by handlePatternEnd when it belongs to a SongPlayer (SongPlayer.ts, line 53)
onEnd(S, clock) ==
  IF S.song.on THEN handlePatternEnd(S, clock) ELSE [S EXCEPT !.ends = @ + 1]

\* a call returns: its frame leaves the stack, unless an exception is
\* unwinding it
returned(S) == IF S.thrown THEN S ELSE [S EXCEPT !.depth = @ - 1]

\* stop(); a call that finds the stack full raises RangeError
SequencerStop(S, clock) ==
  IF S.depth >= MaxDepth THEN [S EXCEPT !.thrown = TRUE]
  ELSE returned(onEnd(stopSequencer([S EXCEPT !.depth = @ + 1], clock), clock))

\* (variant: the end of the pattern is detected one step late)
advanceStep_Late(S, clock) ==
  LET S1 == [S EXCEPT !.seq.nextStepTime = @ + secondsPerStep(S.seq.clock),
                      !.seq.currentStep = @ + 1,
                      !.steps = @ + 1]
  IN  IF S1.seq.currentStep > S1.seq.pattern.steps
      THEN IF S1.seq.loop THEN [S1 EXCEPT !.seq.currentStep = 0, !.loops = @ + 1]
           ELSE SequencerStop(S1, clock)
      ELSE S1

advanceStep(S, clock) ==
  LET S1 == [S EXCEPT !.seq.nextStepTime = @ + secondsPerStep(S.seq.clock),
                      !.seq.currentStep = @ + 1,
                      !.steps = @ + 1]
  IN  IF S1.seq.currentStep >= S1.seq.pattern.steps
      THEN IF S1.seq.loop THEN [S1 EXCEPT !.seq.currentStep = 0, !.loops = @ + 1]
           ELSE SequencerStop(S1, clock)
      ELSE S1

RECURSIVE scheduleEvents(_, _, _)
scheduleEvents(S, scheduleUntil, clock) ==
  IF ~S.thrown /\ S.seq.nextStepTime < scheduleUntil /\ S.seq.isPlaying /\ ~S.seq.isPaused
  THEN scheduleEvents(
         advanceStep(scheduleStep(S, S.seq.currentStep, S.seq.nextStepTime, clock), clock),
         scheduleUntil, clock)
  ELSE S

\* Scheduler.tick(), line 93: the next tick is armed
armTick(S, clock) ==
  LET id == NewTimerId(S)
  IN  IF S.thrown THEN S
      ELSE [S EXCEPT
              !.timers = @ \cup {[id |-> id, kind |-> "tick",
                                  due |-> clock + SCHEDULER_INTERVAL]},
              !.scheduler.timerId = id]

\* Scheduler.tick() gets past line 82: one more tick is in progress.
\* (ticking counts the tick() frames on the stack; nested records that a
\* tick began while another one was in progress.)
tickBegins(S) ==
  [S EXCEPT !.ticking = @ + 1, !.nested = @ \/ S.ticking > 0]

\* Scheduler.tick() returns
tickReturns(S) == [S EXCEPT !.ticking = @ - 1]

\* Scheduler.tick(), with the Sequencer's callback
SchedulerTick(S, clock) ==
  IF ~S.scheduler.isRunning THEN S
  ELSE tickReturns(armTick(scheduleEvents(tickBegins(S), clock + SCHEDULE_AHEAD_TIME, clock),
                           clock))

SchedulerStart(S, clock) ==
  IF S.scheduler.isRunning THEN S
  ELSE SchedulerTick([S EXCEPT !.scheduler.isRunning = TRUE], clock)

\* (variant: play() always starts over from step 0)
SequencerPlay_Restart(S, clock) ==
  IF S.seq.isPlaying /\ ~S.seq.isPaused THEN S
  ELSE SchedulerStart([S EXCEPT !.seq.isPlaying = TRUE, !.seq.isPaused = FALSE,
                                !.seq.currentStep = 0,
                                !.seq.nextStepTime = clock], clock)

\* play()
SequencerPlay(S, clock) ==
  IF S.seq.isPlaying /\ ~S.seq.isPaused THEN S
  ELSE SchedulerStart([S EXCEPT !.seq.isPlaying = TRUE, !.seq.isPaused = FALSE,
                                !.seq.nextStepTime = clock], clock)

\* the remainder operator of the language: the result has the sign of the
\* dividend
Remainder(a, b) == IF a >= 0 THEN a % b ELSE 0 - ((0 - a) % b)

\* seekToStep(step)
seekToStep(S, step) ==
  [S EXCEPT !.seq.currentStep = Remainder(step, S.seq.pattern.steps)]

\* the isPlaying getter
isPlaying(S) == S.seq.isPlaying /\ ~S.seq.isPaused

\* setPattern(pattern), lines 351-353
replacePattern(S, pattern) ==
  [S EXCEPT !.seq.pattern = pattern,
            !.seq.clock.stepsPerBeat = pattern.stepsPerBeat]

\* setPattern(pattern), lines 352-356, once this.stop() has left the state S1
setPatternStopped(S1, pattern, wasPlaying, clock) ==
  IF S1.thrown THEN S1
  ELSE IF wasPlaying THEN SequencerPlay(replacePattern(S1, pattern), clock)
  ELSE replacePattern(S1, pattern)

\* setPattern(pattern)
setPattern(S, pattern, clock) ==
  setPatternStopped(SequencerStop(S, clock), pattern, isPlaying(S), clock)

\* ------------------------------------------------------------------------
\* SongPlayer: a PatternPlayer whose Sequencer plays the patterns of
\* song.sequence one after the other.  song.index is
\* _currentPatternIndex (counted from 0), song.pattern the id of
\* PatternPlayer._pattern
\* ------------------------------------------------------------------------
NoSong ==
  [ on |-> FALSE, sequence |-> <<>>, patterns |-> <<>>, loop |-> FALSE,
    loopPoint |-> <<>>, index |-> 0, pattern |-> NULL ]

NewSongPlayer(sequence, patterns, loop, loopPoint) ==
  [ on |-> TRUE, sequence |-> sequence, patterns |-> patterns, loop |-> loop,
    loopPoint |-> loopPoint, index |-> 0, pattern |-> sequence[1] ]

\* the currentPatternId getter
currentPatternId(song) == song.sequence[song.index + 1]

\* loadCurrentPattern()
loadCurrentPattern(S, clock) ==
  setPattern([S EXCEPT !.song.pattern = currentPatternId(S.song)],
             S.song.patterns[currentPatternId(S.song)], clock)

\* this.onPatternChange?.(index, this.currentPatternId)
onPatternChange(S, index) ==
  IF S.thrown THEN S
  ELSE [S EXCEPT !.changes = Append(@, <<index, currentPatternId(S.song)>>)]

\* handlePatternEnd(), lines 164-165 and 171-172, once loadCurrentPattern has
\* left the state S
playLoaded(S, index, clock) ==
  IF S.thrown THEN S ELSE onPatternChange(SequencerPlay(S, clock), index)

\* handlePatternEnd(), lines 158-176, having called this.onEnd?.()
moveOn(S, clock) ==
  LET nextIndex == S.song.index + 1
      loopPoint == IF S.song.loopPoint # <<>> THEN S.song.loopPoint[1] ELSE 0
  IN  IF nextIndex < Len(S.song.sequence)
      THEN playLoaded(loadCurrentPattern([S EXCEPT !.song.index = nextIndex], clock),
                      nextIndex, clock)
      ELSE IF S.song.loop
      THEN playLoaded(loadCurrentPattern([S EXCEPT !.song.index = loopPoint], clock),
                      loopPoint, clock)
      ELSE [S EXCEPT !.song.index = 0]

\* handlePatternEnd()
handlePatternEnd(S, clock) == moveOn([S EXCEPT !.ends = @ + 1], clock)

\* SongPlayer.stop(), lines 184-185, once super.stop() has left the state S
songStopped(S, clock) ==
  IF S.thrown THEN S ELSE loadCurrentPattern([S EXCEPT !.song.index = 0], clock)

\* SongPlayer.stop()
SongPlayerStop(S, clock) == songStopped(SequencerStop(S, clock), clock)

\* pause()
SequencerPause(S) ==
  IF ~S.seq.isPlaying THEN S
  ELSE SchedulerStop([S EXCEPT !.seq.isPaused = TRUE])

\* setChannelMute(channel, muted)
setChannelMute(S, channel, muted, clock) ==
  LET voice == ActiveGet(S.seq.activeVoices, channel)
      S1 == [S EXCEPT !.seq.mutedChannels = @ \cup {channel}]
  IN  IF muted
      THEN IF voice # NoSynth
           THEN [SynthNoteOff(S1, voice, clock, clock) EXCEPT
                   !.seq.activeVoices = ActiveDelete(@, channel)]
           ELSE S1
      ELSE [S EXCEPT !.seq.mutedChannels = @ \ {channel}]

RECURSIVE silenceInaudible(_, _, _)
silenceInaudible(S, i, clock) ==
  IF i > Len(CHANNEL_NAMES) THEN S
  ELSE LET ch == CHANNEL_NAMES[i]
           voice == ActiveGet(S.seq.activeVoices, ch)
       IN  silenceInaudible(
             IF ~isChannelAudible(S.seq, ch) /\ voice # NoSynth
             THEN [SynthNoteOff(S, voice, clock, clock) EXCEPT
                     !.seq.activeVoices = ActiveDelete(@, ch)]
             ELSE S,
             i + 1, clock)

\* setChannelSolo(channel, solo)
setChannelSolo(S, channel, solo, clock) ==
  silenceInaudible(
    [S EXCEPT !.seq.soloedChannels = IF solo THEN @ \cup {channel} ELSE @ \ {channel}],
    1, clock)

\* the callback of the note-off timer set by playNote
NoteOffTimeout(S, t, clock) ==
  LET S1 == SynthNoteOff([S EXCEPT !.timers = @ \ {t}], t.synth, t.noteOffTime, clock)
  IN  [S1 EXCEPT
         !.seq.activeVoices = IF ActiveGet(@, t.channel) = t.synth
                              THEN ActiveDelete(@, t.channel) ELSE @,
         !.seq.scheduledNoteOffs = {n \in @ : ~(n.channel = t.channel /\ n.step = t.step)}]

\* ------------------------------------------------------------------------
\* Numbers.  A wavetable sample is a number of the language: NaN, or x / Half
\* for an integer x (so that 7.5 and the halves Math.round decides on exist).
\* ------------------------------------------------------------------------
Half == 2

Num(x) == [nan |-> FALSE, x |-> x]

NaN == [nan |-> TRUE, x |-> 0]

Whole(n) == Num(Half * n)

\* Math.round: to the nearest integer, a half towards +Infinity; NaN for NaN
MathRound(a) == IF a.nan THEN NaN ELSE Num(Half * ((a.x + 1) \div Half))

\* Math.min, Math.max: NaN as soon as an argument is NaN
MathMin(a, b) == IF a.nan \/ b.nan THEN NaN ELSE Num(Min(a.x, b.x))

MathMax(a, b) == IF a.nan \/ b.nan THEN NaN ELSE Num(Max(a.x, b.x))

IsInteger(a) == ~a.nan /\ a.x % Half = 0

\* ------------------------------------------------------------------------
\* The channel a Voice is configured with, and its waveform (PulseChannel,
\* WaveChannel, NoiseChannel).  An optional field of a configuration is <<>>
\* when absent and <<value>> when present.
\* ------------------------------------------------------------------------
ChannelTypes == {"pulse1", "pulse2", "wave", "noise"}

WaveformConfig(type, duty, wavetable, mode) ==
  [type |-> type, duty |-> duty, wavetable |-> wavetable, mode |-> mode]

\* the channel kind a waveform type is declared for (types, lines 15-46)
WaveformKind(type) ==
  CASE type = "pulse" -> "pulse"
    [] type \in {"triangle", "sawtooth", "custom"} -> "wave"
    [] type = "noise" -> "noise"

NoOscillator == [type |-> "none", duty |-> 0, normalized |-> <<>>, frequency |-> 0]

\* new PulseChannel / WaveChannel / NoiseChannel, as one record
\* [kind, duty, waveformConfig, wavetable, mode, oscillator]
NewChannelOf(kind) ==
  [ kind |-> kind,
    duty |-> 500,                                                \* PulseChannel.duty
    waveformConfig |-> WaveformConfig("triangle", <<>>, <<>>, <<>>),
    wavetable |-> [i \in 1..WAVETABLE_SIZE |-> Whole(8)],        \* new Array(32).fill(8)
    mode |-> "long",                                             \* NoiseChannel.mode
    oscillator |-> NoOscillator ]

NoChannelOf == NewChannelOf("none")

\* PulseChannel.setDuty, NoiseChannel.setMode
setDuty(c, duty) == [c EXCEPT !.duty = duty]

setMode(c, mode) == [c EXCEPT !.mode = mode]

\* WaveChannel.setWavetable(samples): [channel, error]
setWavetable(c, samples) ==
  IF Len(samples) # WAVETABLE_SIZE
  THEN [channel |-> c, error |-> "Wavetable must be exactly 32 samples"]
  ELSE [channel |-> [c EXCEPT !.wavetable =
                       [i \in 1..Len(samples) |->
                          MathMax(Whole(0),
                                  MathMin(Whole(WAVETABLE_MAX_VALUE),
                                          MathRound(samples[i])))]],
        error |-> "none"]

\* WaveChannel.setWaveform(config): the configuration is stored before the
\* wavetable is looked at
setWaveform(c, config) ==
  LET c1 == [c EXCEPT !.waveformConfig = config]
  IN  IF config.type = "custom" /\ config.wavetable # <<>>
      THEN setWavetable(c1, config.wavetable[1])
      ELSE [channel |-> c1, error |-> "none"]

\* Voice.configure, lines 64-91: the channel made for an instrument, or the
\* error thrown while making it (this.channel is then left null)
configureChannel(channelType, waveform) ==
  CASE channelType \in {"pulse1", "pulse2"} ->
         [ channel |-> IF waveform.duty # <<>>
                       THEN setDuty(NewChannelOf("pulse"), waveform.duty[1])
                       ELSE NewChannelOf("pulse"),
           error |-> "none" ]
    [] channelType = "wave" ->
         LET r == setWaveform(NewChannelOf("wave"), waveform)
         IN  IF r.error # "none" THEN [channel |-> NoChannelOf, error |-> r.error]
             ELSE r
    [] channelType = "noise" ->
         [ channel |-> IF waveform.mode # <<>>
                       THEN setMode(NewChannelOf("noise"), waveform.mode[1])
                       ELSE NewChannelOf("noise"),
           error |-> "none" ]

\* WaveChannel.createWavetableWave, line 68: the samples normalized from
\* 0..15 to -1..1, s -> (s / 7.5) - 1.  A normalized sample is kept as its
\* numerator over WAVETABLE_MAX_VALUE: with s = x / 2, (s / 7.5) - 1 is
\* (x - 15) / 15.
createWavetableWave(c) ==
  [i \in 1..Len(c.wavetable) |->
     IF c.wavetable[i].nan THEN NaN
     ELSE Num(c.wavetable[i].x - WAVETABLE_MAX_VALUE)]

\* PulseChannel.noteOn / WaveChannel.noteOn / NoiseChannel.noteOn: the
\* source that is started.  A new OscillatorNode has type 'sine'.
channelNoteOn(c, frequency) ==
  [c EXCEPT !.oscillator =
     CASE c.kind = "pulse" ->
            [type |-> "pulse", duty |-> c.duty, normalized |-> <<>>,
             frequency |-> frequency]
       [] c.kind = "wave" ->
            [type |-> IF c.waveformConfig.type \in {"triangle", "sawtooth", "custom"}
                      THEN c.waveformConfig.type ELSE "sine",
             duty |-> 0,
             normalized |-> IF c.waveformConfig.type = "custom"
                            THEN createWavetableWave(c) ELSE <<>>,
             frequency |-> frequency]
       [] c.kind = "noise" ->
            [type |-> c.mode, duty |-> 0, normalized |-> <<>>,
             frequency |-> frequency] ]

\* ------------------------------------------------------------------------
\* AudioEngine and the RetroAudio facade around it.  A is
\* [context, state, pending, mixer, voicePool, created, notified, error]:
\* context is the AudioContext, [id, state], or NoContext; state is
\* AudioEngine._state; pending counts the 'statechange' events dispatched
\* and not yet delivered to the listener installed by init.
\* ------------------------------------------------------------------------
NoContext == [id |-> 0, state |-> "none"]

ContextStates == {"running", "suspended"}

NewRetroAudio ==
  [ context |-> NoContext, state |-> "uninitialized", pending |-> 0,
    mixer |-> FALSE, voicePool |-> FALSE, created |-> 0, notified |-> 0,
    error |-> "none" ]

\* AudioEngine.updateState
updateState(A) ==
  LET s == IF A.context = NoContext THEN "uninitialized"
           ELSE CASE A.context.state = "running"   -> "running"
                  [] A.context.state = "suspended" -> "suspended"
                  [] A.context.state = "closed"    -> "uninitialized"
  IN  [A EXCEPT !.state = s, !.notified = @ + 1]

\* context.resume(), context.suspend(): the state changes and a
\* 'statechange' event is dispatched
contextResume(A) == [A EXCEPT !.context.state = "running", !.pending = @ + 1]

contextSuspend(A) == [A EXCEPT !.context.state = "suspended", !.pending = @ + 1]

\* AudioEngine.init(), with `initial` the state the new AudioContext is in
AudioEngineInit(A, initial) ==
  IF A.context # NoContext
  THEN updateState(IF A.context.state = "suspended" THEN contextResume(A) ELSE A)
  ELSE LET A1 == [A EXCEPT !.context = [id |-> A.created + 1, state |-> initial],
                           !.created = @ + 1]
       IN  updateState(IF initial = "suspended" THEN contextResume(A1) ELSE A1)

\* RetroAudio.init()
RetroAudioInit(A, initial) ==
  LET A1 == AudioEngineInit(A, initial)
  IN  IF A1.context = NoContext
      THEN [A1 EXCEPT !.error = "AudioContext failed to initialize"]
      ELSE [A1 EXCEPT !.mixer = TRUE, !.voicePool = TRUE, !.error = "none"]

\* AudioEngine.suspend() / RetroAudio.suspend()
AudioEngineSuspend(A) ==
  IF A.context # NoContext /\ A.context.state = "running"
  THEN updateState(contextSuspend(A))
  ELSE A

\* AudioEngine.resume() / RetroAudio.resume()
AudioEngineResume(A) ==
  IF A.context # NoContext /\ A.context.state = "suspended"
  THEN updateState(contextResume(A))
  ELSE A

\* (variant: dispose leaves _state as it is)
AudioEngineDispose_KeepsState(A) ==
  IF A.context # NoContext
  THEN [A EXCEPT !.context = NoContext, !.pending = @ + 1]
  ELSE A

\* AudioEngine.dispose(): context.close() dispatches a 'statechange' event
AudioEngineDispose(A) ==
  IF A.context # NoContext
  THEN [A EXCEPT !.context = NoContext, !.pending = @ + 1,
                 !.state = "uninitialized"]
  ELSE A

\* RetroAudio.dispose(), with no synth, sound or player alive: stopAll and
\* the clear() calls find nothing
RetroAudioDispose(A) ==
  AudioEngineDispose([A EXCEPT !.voicePool = FALSE, !.mixer = FALSE, !.error = "none"])

\* the 'statechange' listener: handleStateChange
handleStateChange(A) == updateState([A EXCEPT !.pending = @ - 1])

\* ------------------------------------------------------------------------
\* Arpeggiator.  speed and duration are whole numbers here, which the
\* language's numbers hold exactly; 1 / speed is not exact, so stepDuration
\* is kept as the number the division yields: the MantissaBits-bit mantissa m
\* nearest to 2^e / speed (ties to even), as the bits of its floor and
\* whether it was rounded up, with the remainder rho of 2^e = m * speed + rho.
\* ------------------------------------------------------------------------
RECURSIVE CeilLog2(_)
CeilLog2(n) == IF n <= 1 THEN 0 ELSE 1 + CeilLog2((n + 1) \div 2)

RECURSIVE FloorLog2(_)
FloorLog2(n) == IF n <= 1 THEN 0 ELSE 1 + FloorLog2(n \div 2)

\* 2^k modulo d
RECURSIVE Pow2Mod(_, _)
Pow2Mod(k, d) ==
  IF k = 0 THEN 1 % d
  ELSE LET h == Pow2Mod(k \div 2, d)
       IN  IF k % 2 = 1 THEN (2 * ((h * h) % d)) % d ELSE (h * h) % d

\* the next `count` bits of r / d, for r < d, and the remainder left: long
\* division leaves the remainder r * 2^k modulo d after k bits, and bit k is
\* 1 when twice the remainder before it reaches d
DivideBits(r, d, count) ==
  LET left(k) == (r * Pow2Mod(k, d)) % d
  IN  [ bits |-> [k \in 1..count |-> IF 2 * left(k - 1) >= d THEN 1 ELSE 0],
        r |-> left(count) ]

RECURSIVE BitsValue(_)
BitsValue(bits) ==
  IF bits = <<>> THEN 0
  ELSE 2 * BitsValue(SubSeq(bits, 1, Len(bits) - 1)) + bits[Len(bits)]

\* start, line 36: stepDuration = 1 / speed
Reciprocal(speed) ==
  LET j  == CeilLog2(speed)
      q  == DivideBits(2 ^ j - speed, speed, MantissaBits - 1)
      up == \/ 2 * q.r > speed
            \/ 2 * q.r = speed /\ q.bits[Len(q.bits)] = 1
  IN  [ bits |-> <<1>> \o q.bits, up |-> up, e |-> j + MantissaBits - 1,
        rho |-> IF up THEN q.r - speed ELSE q.r ]

\* the k leading bits of the mantissa of s, as a number
LeadingBits(s, k) ==
  LET low == SubSeq(s.bits, k + 1, Len(s.bits))
  IN  BitsValue(SubSeq(s.bits, 1, k))
        + (IF s.up /\ \A i \in DOMAIN low : low[i] = 1 THEN 1 ELSE 0)

\* start, line 37: Math.ceil(duration / stepDuration), for stepDuration s =
\* Reciprocal(speed).  With n = duration * speed, the exact quotient is
\* n + duration * rho / m.  When rho <= 0 it is at most n and above n - 1,
\* and its ceiling is n.  When rho > 0 the division rounds it to n unless it
\* lies above the midpoint between n and the next number, that is unless
\* m < duration * rho * 2^(MantissaBits - k) with k = FloorLog2(n); then the
\* quotient is above n and the ceiling is n + 1.
CeilOfQuotient(duration, speed, s) ==
  LET n == duration * speed
  IN  IF s.rho > 0 /\ LeadingBits(s, FloorLog2(n)) < duration * s.rho
      THEN n + 1 ELSE n

\* Arpeggiator.start(param, baseFreq, offsets, speed, startTime, duration).
\* An event [i, baseFreq, semitones] is
\* param.setValueAtTime(baseFreq * semitonesToRatio(semitones),
\*                      startTime + i * stepDuration).
ArpeggiatorStart(a, baseFreq, offsets, speed, startTime, duration) ==
  LET safeOffsets  == IF Len(offsets) > 0 THEN offsets ELSE <<0>>
      stepDuration == Reciprocal(speed)
      totalSteps   == CeilOfQuotient(duration, speed, stepDuration)
  IN  [ a EXCEPT
          !.events = [ n \in 1..totalSteps |->
                         [ i |-> n - 1, baseFreq |-> baseFreq,
                           semitones |-> safeOffsets[((n - 1) % Len(safeOffsets)) + 1] ] ],
          !.stepDuration = stepDuration,
          !.scheduledUntil = startTime + duration ]

\* new Arpeggiator(context)
NewArpeggiator ==
  [ events |-> <<>>, stepDuration |-> Reciprocal(1), scheduledUntil |-> 0 ]

\* ------------------------------------------------------------------------
\* Pitch effects of a Synth.  A timeline is [events, inputs]: the automation
\* events written on an AudioParam, each tagged with the effect that wrote
\* it, and the nodes connected to the param.  An event is
\* [by, type, startTime, dt, i, semitones]: slide events sit at startTime + dt
\* ms, arpeggio event i at startTime + i * stepDuration.  NoTimeline stands
\* for a null param.
\* ------------------------------------------------------------------------
NewTimeline == [events |-> <<>>, inputs |-> {}]

NoTimeline == [events |-> <<>>, inputs |-> {"null"}]

TimelineEvent(by, type, startTime, dt, i, semitones) ==
  [ by |-> by, type |-> type, startTime |-> startTime, dt |-> dt, i |-> i,
    semitones |-> semitones ]

\* PitchSlide.apply(param, startFreq, semitones, duration, startTime)
PitchSlideApply(param, semitones, duration, startTime) ==
  [ param EXCEPT
      !.events = @ \o << TimelineEvent("slide", "setValueAtTime", startTime, 0, 0, 0),
                         TimelineEvent("slide", "exponentialRampToValueAtTime",
                                       startTime, duration, 0, semitones) >> ]

\* Vibrato.start(oscillator, depth, speed, startTime): the LFO's gain is
\* connected to oscillator.detune
VibratoStart(detune) == [detune EXCEPT !.inputs = @ \cup {"vibrato"}]

\* the param.setValueAtTime calls of Arpeggiator.start
ArpeggiatorWrites(param, offsets, speed, startTime, duration) ==
  LET written == ArpeggiatorStart(NewArpeggiator, 0, offsets, speed, startTime,
                                  duration).events
  IN  [ events |-> param.events \o
                     [ n \in 1..Len(written) |->
                         TimelineEvent("arpeggio", "setValueAtTime", startTime, 0,
                                       written[n].i, written[n].semitones) ],
        inputs |-> param.inputs ]

\* applyPitchEffects, lines 500-513: the arpeggio
applyArpeggio(P, config) ==
  IF Len(config.arpeggio) > 0 /\ P.frequency # NoTimeline
  THEN [ P EXCEPT !.frequency =
           ArpeggiatorWrites(@, config.arpeggio,
                             IF config.arpeggioSpeed # <<>> THEN config.arpeggioSpeed[1]
                             ELSE DefaultArpeggioSpeed,
                             P.startTime,
                             IF P.noteDuration # <<>> THEN P.noteDuration[1]
                             ELSE DefaultArpeggioDuration) ]
  ELSE P

\* applyPitchEffects, lines 488-498: the vibrato
applyVibrato(P, config) ==
  IF config.vibratoDepth # 0 /\ config.vibratoSpeed # 0 /\ P.detune # NoTimeline
  THEN [P EXCEPT !.detune = VibratoStart(@)]
  ELSE P

\* applyPitchEffects, lines 477-486: the slide
applySlide(P, config) ==
  IF config.slide # 0 /\ config.slideTime # 0 /\ P.frequency # NoTimeline
  THEN [P EXCEPT !.frequency = PitchSlideApply(@, config.slide, config.slideTime,
                                               P.startTime)]
  ELSE P

\* applyPitchEffects(frequency, startTime); config is <<>> for an instrument
\* without pitch, a number left out of the PitchConfig is 0
applyPitchEffects(P, config) ==
  IF config = <<>> THEN P
  ELSE applyArpeggio(applyVibrato(applySlide(P, config[1]), config[1]), config[1])

\* Synth.noteOn(note, velocity, time) on a channel of the given kind:
\* channel.noteOn creates the oscillator (or the buffer source of the noise
\* channel, which has no oscillator), with new params
SynthPitchNoteOn(kind, config, startTime, noteDuration) ==
  applyPitchEffects(
    [ op |-> "noteOn", config |-> config, kind |-> kind,
      frequency |-> NewTimeline,
      detune |-> IF kind = "noise" THEN NoTimeline ELSE NewTimeline,
      startTime |-> startTime, noteDuration |-> noteDuration ],
    config)

\* ------------------------------------------------------------------------
\* The noise register (NoiseChannel.generateLFSRBuffer, and the same loop in
\* NoiseGenerator.generateLFSRBuffer).  The register has `bits` bits, so
\* >> 1 is \div 2, & 1 is % 2, and the | of the shifted register with the
\* feedback bit at position bits - 1 is a sum.
\* ------------------------------------------------------------------------
\* (1 << bits) - 1
lfsrSeed(bits) == 2 ^ bits - 1

\* data[i] = (lfsr & 1) ? 1 : -1
lfsrOutput(lfsr) == IF lfsr % 2 = 1 THEN 1 ELSE 0 - 1

\* (variant: the feedback is bit 0 alone)
lfsrShift_OneTap(lfsr, bits) ==
  LET bit == lfsr % 2
  IN  (lfsr \div 2) + bit * 2 ^ (bits - 1)

\* bit = ((lfsr >> tap1) ^ (lfsr >> tap2)) & 1 with tap1 = 0, tap2 = 1;
\* lfsr = (lfsr >> 1) | (bit << (bits - 1))
lfsrShift(lfsr, bits) ==
  LET bit == ((lfsr % 2) + ((lfsr \div 2) % 2)) % 2
  IN  (lfsr \div 2) + bit * 2 ^ (bits - 1)

\* generateNoiseBuffers: the two buffers, by length and register width
NoiseBuffers ==
  { [mode |-> "long",  length |-> LFSR_LONG_LENGTH,  bits |-> 15],
    [mode |-> "short", length |-> LFSR_SHORT_LENGTH, bits |-> 7] }

\* ------------------------------------------------------------------------
\* State
\* ------------------------------------------------------------------------
VARIABLES
  now,           \* context.currentTime, in ms
  voices,        \* VoicePool.voices
  poolConfig,    \* VoicePool's [maxVoices, stealingMode]
  timers,        \* pending setTimeout callbacks
  seq,           \* the Sequencer
  scheduler,     \* the Sequencer's Scheduler
  lastAcq,       \* outcome of acquire() when the last step called it:
                 \* [how, voice, error]
  song,          \* the SongPlayer around the Sequencer, NoSong when there
                 \* is none
  seqLast,       \* what the last step did to the Sequencer:
                 \* [op, call, voice, lanes, steps, loops, ends, first,
                 \*  changes, thrown]
  calls,         \* number of calls made on the Sequencer's API so far
  dur,           \* last result of calculateNoteDuration: [index, result]
  env,           \* an Envelope, the gain parameter it is applied to and its
                 \* last call: [config, gain, last]
  lastNoteOn,    \* outcome of Voice.noteOn when the last step called it:
                 \* [voice, error]
  acquired,      \* the voices handed out so far by the acquisitions of
                 \* CycleSpec, in order
  wave,          \* a channel being configured and played on its own:
                 \* [op, channelType, waveform, channel, error]
  noise,         \* a noise buffer being generated: [buffer, lfsr, i, data]
                 \* (i: samples written; data: the last sample written)
  arp,           \* an Arpeggiator and its last call:
                 \* [op, a, baseFreq, offsets, speed, startTime, duration]
  audio,         \* the RetroAudio facade and the last call on it: [A, call, n]
                 \* (n: calls made so far)
  pitch,         \* a Synth's pitch effects after its last noteOn:
                 \* [op, config, kind, frequency, detune, startTime, noteDuration]
  sound          \* the SoundInstances returned by playSfx so far, in order:
                 \* [voice, isPlaying, finished, durationTimeout, instrument,
                 \*  duration]

vars ==
  <<now, voices, poolConfig, timers, seq, scheduler, song, lastAcq, seqLast, calls,
    dur, env, lastNoteOn, acquired, wave, noise, arp, audio, pitch, sound>>

\* the units exercised on their own
units == <<wave, noise, arp, audio, pitch, sound>>

seqVars == <<seq, scheduler, seqLast>>

World ==
  [ voices |-> voices, timers |-> timers, seq |-> seq, scheduler |-> scheduler,
    pool |-> poolConfig, song |-> song,
    \* the stop() frames on the call stack, and whether an exception is
    \* unwinding it
    depth |-> 0, thrown |-> FALSE,
    \* the onPatternChange calls made by the handler being run
    changes |-> <<>>,
    \* what the handler being run has done so far: the lanes it issued a
    \* noteOn for, the steps it advanced, the onLoop / onEnd calls it made
    \* (first: the first step it scheduled, when steps > 0)
    noteOns |-> {}, steps |-> 0, loops |-> 0, ends |-> 0, first |-> 0 - 1,
    skipped |-> {},
    \* the tick() frames on the call stack, and whether one began inside
    \* another
    ticking |-> 0, nested |-> FALSE,
    \* whether a step was scheduled to sound no later than an earlier one
    early |-> FALSE ]

\* the step leaves the state W
Becomes(W) ==
  /\ voices' = W.voices
  /\ timers' = W.timers
  /\ seq' = W.seq
  /\ scheduler' = W.scheduler
  /\ song' = W.song

\* the step leaves the state W, having issued noteOn on the lanes W.noteOns
BecomesScheduled(W, call) ==
  /\ Becomes(W)
  /\ seqLast' = [ op |-> "schedule", call |-> call, voice |-> 0,
                  lanes |-> W.noteOns, steps |-> W.steps, loops |-> W.loops,
                  ends |-> W.ends, first |-> W.first, skipped |-> W.skipped,
                  nested |-> W.nested, early |-> W.early,
                  changes |-> W.changes, thrown |-> W.thrown ]

NoAcq == [how |-> "none", voice |-> 0, error |-> "none"]

NoSeqOp ==
  [ op |-> "none", call |-> "none", voice |-> 0, lanes |-> {},
    steps |-> 0, loops |-> 0, ends |-> 0, first |-> 0 - 1, skipped |-> {},
    nested |-> FALSE, early |-> FALSE, changes |-> <<>>, thrown |-> FALSE ]

NoDur == [index |-> 0, result |-> 0]

NoNoteOn == [voice |-> 0, error |-> "none"]

\* no call of the Envelope yet
NoEnvCall ==
  [ op |-> "none", t |-> 0, v |-> 0, time |-> 0, kept |-> <<>>, cancelled |-> 0,
    at |-> <<>> ]

\* no channel configured yet
NoWave ==
  [ op |-> "none", channelType |-> "none",
    waveform |-> WaveformConfig("none", <<>>, <<>>, <<>>),
    channel |-> NoChannelOf, error |-> "none" ]

\* generateLFSRBuffer before the first pass of its loop
NewLFSRBuffer(buffer) ==
  [buffer |-> buffer, lfsr |-> lfsrSeed(buffer.bits), i |-> 0, data |-> 0]

\* no call of the Arpeggiator yet
NoArp ==
  [ op |-> "none", a |-> NewArpeggiator, baseFreq |-> 0, offsets |-> <<>>,
    speed |-> 1, startTime |-> 0, duration |-> 0 ]

NoPitch ==
  [ op |-> "none", config |-> <<>>, kind |-> "none", frequency |-> NoTimeline,
    detune |-> NoTimeline, startTime |-> 0, noteDuration |-> <<>> ]

UnitsInit ==
  /\ wave = NoWave
  /\ noise = NewLFSRBuffer(CHOOSE b \in NoiseBuffers : b.mode = "long")
  /\ arp = NoArp
  /\ audio = [A |-> NewRetroAudio, call |-> "none", n |-> 0]
  /\ pitch = NoPitch
  /\ sound = <<>>

EnvelopeOn(config, value) ==
  [config |-> NewEnvelope(config), gain |-> NewParam(value), last |-> NoEnvCall]

\* ------------------------------------------------------------------------
\* Patterns played by the Sequencer
\* ------------------------------------------------------------------------
PatternBpm == MAX_BPM \div 3

DemoPattern ==
  [ steps |-> 2, stepsPerBeat |-> 1,
    channels |->
      [ pulse1 |-> << NoteEvent(0, "C4", "lead", <<>>), NoteEvent(1, "E4", "lead", <<>>) >>,
        pulse2 |-> << >>,
        wave   |-> << NoteEvent(0, "C3", "missing", <<>>) >>,
        noise  |-> << NoteEvent(0, "C4", "hat", <<>>), NoteEvent(1, NULL, "hat", <<>>) >> ] ]

AltPattern ==
  [ steps |-> 3, stepsPerBeat |-> 1,
    channels |->
      [ pulse1 |-> << NoteEvent(0, "G4", "lead", <<1>>) >>,
        pulse2 |-> << NoteEvent(2, "C5", "lead", <<>>) >>,
        wave   |-> << >>,
        noise  |-> << >> ] ]

InitEngine(sizes, modes, sequencers) ==
  /\ now = 0
  /\ voices = <<>>
  /\ poolConfig \in [maxVoices : sizes, stealingMode : modes]
  /\ timers = {}
  /\ lastAcq = NoAcq
  /\ seq \in sequencers
  /\ scheduler = NewScheduler
  /\ song = NoSong
  /\ seqLast = NoSeqOp
  /\ calls = 0
  /\ dur = NoDur
  /\ env = EnvelopeOn(Instruments["lead"].envelope, 0)
  /\ lastNoteOn = NoNoteOn
  /\ acquired = <<>>

InitWith(sizes, modes, sequencers) ==
  InitEngine(sizes, modes, sequencers) /\ UnitsInit

InitPool(sizes, modes) ==
  InitWith(sizes, modes, {NewSequencer(DemoPattern, PatternBpm, loop) : loop \in BOOLEAN})

\* ------------------------------------------------------------------------
\* Calls on the pool and on voice handles
\* ------------------------------------------------------------------------

\* VoicePool.acquire()
Acquire ==
  LET r == acquire(World, poolConfig.maxVoices, poolConfig.stealingMode, now)
  IN  /\ Becomes(r.W)
      /\ lastAcq' = [how |-> r.how, voice |-> r.voice, error |-> "none"]
      /\ lastNoteOn' = NoNoteOn
      /\ UNCHANGED <<units, dur, env, acquired, now, poolConfig, seqLast, calls>>

\* RetroAudio.createSynth(instrument): acquire; a null voice raises
\* VoiceLimitReachedError; otherwise the Synth constructor configures the voice
CreateSynth(instruments) ==
  \E i \in instruments :
    LET r == acquire(World, poolConfig.maxVoices, poolConfig.stealingMode, now)
        W == IF r.voice = 0 THEN r.W ELSE VoiceConfigure(r.W, r.voice, i)
    IN  /\ Becomes(W)
        /\ lastAcq' = [ how |-> r.how, voice |-> r.voice,
                        error |-> IF r.voice = 0 THEN "VoiceLimitReachedError"
                                  ELSE "none" ]
        /\ lastNoteOn' = NoNoteOn
        /\ UNCHANGED <<units, dur, env, acquired, now, poolConfig, seqLast, calls>>

\* RetroAudio.playSfx(instrument, note): acquire; a null voice raises
\* VoiceLimitReachedError; otherwise configure and noteOn(frequency, 1, now).
\* (No duration is given, so the SoundInstance it returns sets no timer.)
PlaySfx(instruments) ==
  \E i \in instruments :
    LET r == acquire(World, poolConfig.maxVoices, poolConfig.stealingMode, now)
        W == IF r.voice = 0 THEN r.W
             ELSE VoiceNoteOn(VoiceConfigure(r.W, r.voice, i), r.voice, AmpOne, now, now)
    IN  /\ Becomes(W)
        /\ lastAcq' = [ how |-> r.how, voice |-> r.voice,
                        error |-> IF r.voice = 0 THEN "VoiceLimitReachedError"
                                  ELSE "none" ]
        /\ lastNoteOn' = NoNoteOn
        /\ UNCHANGED <<units, dur, env, acquired, now, poolConfig, seqLast, calls>>

\* Voice.configure(instrument) through a held handle
\* (Synth.updateInstrument / Synth.setWaveform)
Configure ==
  \E v \in Indices(voices), i \in {"lead", "hat"} :
    /\ Becomes(VoiceConfigure(World, v, i))
    /\ lastAcq' = NoAcq
    /\ lastNoteOn' = NoNoteOn
    /\ UNCHANGED <<units, dur, env, acquired, now, poolConfig, seqLast, calls>>

\* Voice.noteOn(frequency, velocity, time)
NoteOn(times) ==
  \E v \in Indices(voices), velocity \in Velocities, time \in times :
    LET r == noteOn(World, v, velocity, time, now)
    IN  /\ time <= MaxTime
        /\ Becomes(r.W)
        /\ lastAcq' = NoAcq
        /\ lastNoteOn' = [voice |-> v, error |-> r.error]
        /\ UNCHANGED <<units, dur, env, acquired, now, poolConfig, seqLast, calls>>

\* Voice.noteOff(time?)
NoteOff(times) ==
  \E v \in Indices(voices), time \in times :
    LET W == VoiceNoteOff(World, v, time, now)
    IN  /\ Cardinality(timers) < MaxTimers
        /\ \A t \in W.timers : t.due <= MaxTime
        /\ Becomes(W)
        /\ lastAcq' = NoAcq
        /\ lastNoteOn' = NoNoteOn
        /\ UNCHANGED <<units, dur, env, acquired, now, poolConfig, seqLast, calls>>

\* Voice.stop() (VoicePool.release)
Stop ==
  \E v \in Indices(voices) :
    /\ Becomes(VoiceStop(World, v, now))
    /\ lastAcq' = NoAcq
    /\ lastNoteOn' = NoNoteOn
    /\ UNCHANGED <<units, dur, env, acquired, now, poolConfig, seqLast, calls>>

\* ------------------------------------------------------------------------
\* Timers and the clock
\* ------------------------------------------------------------------------

\* a release timer whose delay has elapsed runs its callback
ReleaseTimerFires ==
  \E t \in timers :
    /\ t.kind = "release"
    /\ t.due <= now
    /\ Becomes(ReleaseTimeout(World, t))
    /\ lastAcq' = NoAcq
    /\ seqLast' = NoSeqOp
    /\ lastNoteOn' = NoNoteOn
    /\ UNCHANGED <<units, dur, env, acquired, now, poolConfig, calls>>

\* every parameter consumes the events that came due
ProcessParams(vs, time) ==
  [i \in Indices(vs) |-> [vs[i] EXCEPT !.gain = processScheduledEventsUntil(@, time)]]

\* the clock advances by one quantum, up to `limit`
AdvanceTime(limit) ==
  /\ now < limit
  /\ now' = now + Quantum
  /\ voices' = ProcessParams(voices, now')
  /\ lastAcq' = NoAcq
  /\ seqLast' = NoSeqOp
  /\ lastNoteOn' = NoNoteOn
  /\ UNCHANGED <<units, dur, env, acquired, poolConfig, timers, seq, scheduler, song, calls>>

\* ------------------------------------------------------------------------
\* Spec: the voice pool driven through RetroAudio.createSynth and the
\* handles it returns
\* ------------------------------------------------------------------------
PoolInstruments == {"lead"}

Init == InitPool({MaxVoices}, StealingModes) /\ ~seq.loop

Next ==
  \/ CreateSynth(PoolInstruments)
  \/ PlaySfx(PoolInstruments)
  \/ NoteOn({now})
  \/ NoteOff({now})
  \/ Stop
  \/ ReleaseTimerFires
  \/ AdvanceTime(MaxTime)

Spec == Init /\ [][Next]_vars

\* ------------------------------------------------------------------------
\* VoiceSpec: one voice (a pool of capacity 1) driven through every Voice
\* method, with calls scheduled at the present or one quantum ahead
\* ------------------------------------------------------------------------
CallTimes == {now, now + Quantum}

VoiceInit == InitPool({1}, {"oldest"}) /\ ~seq.loop

VoiceNext ==
  \/ Acquire
  \/ Configure
  \/ NoteOn(CallTimes)
  \/ NoteOff(CallTimes)
  \/ Stop
  \/ ReleaseTimerFires
  \/ AdvanceTime(MaxTime)

VoiceSpec == VoiceInit /\ [][VoiceNext]_vars

\* VoiceSpec on an event loop that keeps running: a timer whose delay has
\* elapsed is eventually run, and the audio clock keeps advancing
FairVoiceSpec ==
  VoiceSpec /\ WF_vars(ReleaseTimerFires) /\ WF_vars(AdvanceTime(MaxTime))

\* ------------------------------------------------------------------------
\* SeqSpec: a Sequencer playing DemoPattern on the engine's pool
\* ------------------------------------------------------------------------
SeqMaxTime == SeqTicks * Quantum

\* arguments of seekToStep: before the first step and past the last one
SeekSteps == {0 - 1, 3}

\* arguments of setPattern
Patterns == {DemoPattern, AltPattern}

MuteLanes == {"pulse1"}
SoloLanes == {"pulse1"}

\* Sequencer.play()
Play ==
  /\ calls < MaxCalls
  /\ BecomesScheduled(SequencerPlay(World, now),
                      IF seq.isPlaying /\ seq.isPaused THEN "play-paused"
                      ELSE IF seq.isPlaying THEN "play-playing" ELSE "play")
  /\ calls' = calls + 1
  /\ lastNoteOn' = NoNoteOn
  /\ UNCHANGED <<units, dur, env, acquired, now, poolConfig, lastAcq>>

\* Sequencer.pause()
Pause ==
  /\ calls < MaxCalls
  /\ Becomes(SequencerPause(World))
  /\ seqLast' = [NoSeqOp EXCEPT !.call = "pause"]
  /\ calls' = calls + 1
  /\ lastNoteOn' = NoNoteOn
  /\ UNCHANGED <<units, dur, env, acquired, now, poolConfig, lastAcq>>

\* Sequencer.stop()
SeqStop ==
  /\ calls < MaxCalls
  /\ Becomes(SequencerStop(World, now))
  /\ seqLast' = [NoSeqOp EXCEPT !.op = "stop", !.call = "stop", !.ends = 1]
  /\ calls' = calls + 1
  /\ lastNoteOn' = NoNoteOn
  /\ UNCHANGED <<units, dur, env, acquired, now, poolConfig, lastAcq>>

\* Sequencer.setChannelMute(channel, muted)
SetChannelMute ==
  \E channel \in MuteLanes, muted \in BOOLEAN :
    /\ calls < MaxCalls
    /\ Becomes(setChannelMute(World, channel, muted, now))
    /\ seqLast' = IF muted
                  THEN [ NoSeqOp EXCEPT
                           !.op = "mute", !.lanes = {channel},
                           !.voice = ActiveGet(seq.activeVoices, channel).voice ]
                  ELSE NoSeqOp
    /\ calls' = calls + 1
    /\ lastNoteOn' = NoNoteOn
    /\ UNCHANGED <<units, dur, env, acquired, now, poolConfig, lastAcq>>

\* Sequencer.setChannelSolo(channel, solo)
SetChannelSolo ==
  \E channel \in SoloLanes, solo \in BOOLEAN :
    /\ calls < MaxCalls
    /\ Becomes(setChannelSolo(World, channel, solo, now))
    /\ seqLast' = NoSeqOp
    /\ calls' = calls + 1
    /\ lastNoteOn' = NoNoteOn
    /\ UNCHANGED <<units, dur, env, acquired, now, poolConfig, lastAcq>>

\* the Scheduler's timer fires: tick()
SchedulerTimerFires ==
  \E t \in timers :
    /\ t.kind = "tick"
    /\ t.due <= now
    /\ BecomesScheduled(SchedulerTick([World EXCEPT !.timers = @ \ {t}], now), "tick")
    /\ lastNoteOn' = NoNoteOn
    /\ UNCHANGED <<units, dur, env, acquired, now, poolConfig, lastAcq, calls>>

\* a note-off timer set by playNote fires
NoteOffTimerFires ==
  \E t \in timers :
    /\ t.kind = "noteOff"
    /\ t.due <= now
    /\ Becomes(NoteOffTimeout(World, t, now))
    /\ seqLast' = NoSeqOp
    /\ lastNoteOn' = NoNoteOn
    /\ UNCHANGED <<units, dur, env, acquired, now, poolConfig, lastAcq, calls>>

\* Sequencer.seekToStep(step)
SeekToStep ==
  \E step \in SeekSteps :
    /\ calls < MaxCalls
    /\ Becomes(seekToStep(World, step))
    /\ seqLast' = [NoSeqOp EXCEPT !.call = "seek"]
    /\ calls' = calls + 1
    /\ lastNoteOn' = NoNoteOn
    /\ UNCHANGED <<units, dur, env, acquired, now, poolConfig, lastAcq>>

\* Sequencer.setPattern(pattern)
SetPattern ==
  \E pattern \in Patterns :
    /\ calls < MaxCalls
    /\ BecomesScheduled(setPattern(World, pattern, now), "setPattern")
    /\ calls' = calls + 1
    /\ lastNoteOn' = NoNoteOn
    /\ UNCHANGED <<units, dur, env, acquired, now, poolConfig, lastAcq>>

SeqInit == InitPool({MaxVoices}, {"oldest"})

SeqNext ==
  \/ Play
  \/ Pause
  \/ SeqStop
  \/ SeekToStep
  \/ SetPattern
  \/ SetChannelMute
  \/ SetChannelSolo
  \/ SchedulerTimerFires
  \/ NoteOffTimerFires
  \/ ReleaseTimerFires
  \/ AdvanceTime(SeqMaxTime)

SeqSpec == SeqInit /\ [][SeqNext]_vars

\* ------------------------------------------------------------------------
\* SongSpec: a SongPlayer playing a song made of DemoPattern ("A", which
\* fits into the scheduler's lookahead as a whole) and AltPattern ("B",
\* which does not)
\* ------------------------------------------------------------------------
SongMaxTime == SongTicks * Quantum

SongPatterns == [A |-> DemoPattern, B |-> AltPattern]

SongSequences == {<<"B">>, <<"A", "B">>, <<"B", "A">>}

Songs ==
  { NewSongPlayer(sequence, SongPatterns, loop, loopPoint) :
      sequence \in SongSequences, loop \in BOOLEAN,
      loopPoint \in {<<>>} \cup {<<i>> : i \in {1}} }

\* the SongPlayer constructor: the Sequencer gets the first pattern of the
\* sequence and loop: false
SongInit ==
  /\ now = 0
  /\ voices = <<>>
  /\ poolConfig = [maxVoices |-> MaxVoices, stealingMode |-> "oldest"]
  /\ timers = {}
  /\ lastAcq = NoAcq
  /\ song \in {sg \in Songs : sg.loopPoint = <<>> \/ sg.loopPoint[1] < Len(sg.sequence)}
  /\ seq = NewSequencer(song.patterns[song.sequence[1]], PatternBpm, FALSE)
  /\ scheduler = NewScheduler
  /\ seqLast = NoSeqOp
  /\ calls = 0
  /\ dur = NoDur
  /\ env = EnvelopeOn(Instruments["lead"].envelope, 0)
  /\ lastNoteOn = NoNoteOn
  /\ acquired = <<>>
  /\ UnitsInit

\* PatternPlayer.play()
SongPlay ==
  /\ calls < SongCalls
  /\ Play

\* PatternPlayer.pause()
SongPause ==
  /\ calls < SongCalls
  /\ Pause

\* SongPlayer.stop()
SongStop ==
  /\ calls < SongCalls
  /\ BecomesScheduled(SongPlayerStop(World, now), "songStop")
  /\ calls' = calls + 1
  /\ lastNoteOn' = NoNoteOn
  /\ UNCHANGED <<units, dur, env, acquired, now, poolConfig, lastAcq>>

SongNext ==
  \/ SongPlay
  \/ SongPause
  \/ SongStop
  \/ SchedulerTimerFires
  \/ NoteOffTimerFires
  \/ ReleaseTimerFires
  \/ AdvanceTime(SongMaxTime)

SongSpec == SongInit /\ [][SongNext]_vars

\* ------------------------------------------------------------------------
\* CycleSpec: a pool of two voices in mode 'oldest'; every voice that
\* createSynth hands out is triggered, at a time strictly later than every
\* earlier noteOn, before the next one is asked for
\* ------------------------------------------------------------------------
CycleMaxTime == CycleTicks * Quantum

CycleInstruments == {"lead", "hat"}

CycleInit ==
  /\ now = 0
  /\ voices = <<>>
  /\ poolConfig = [maxVoices |-> 2, stealingMode |-> "oldest"]
  /\ timers = {}
  /\ lastAcq = NoAcq
  /\ seq = NewSequencer(DemoPattern, PatternBpm, FALSE)
  /\ scheduler = NewScheduler
  /\ song = NoSong
  /\ seqLast = NoSeqOp
  /\ calls = 0
  /\ dur = NoDur
  /\ env = EnvelopeOn(Instruments["lead"].envelope, 0)
  /\ lastNoteOn = NoNoteOn
  /\ acquired = <<>>
  /\ UnitsInit

\* RetroAudio.createSynth(instrument), once every voice handed out before
\* is sounding
CycleAcquire ==
  \E i \in CycleInstruments :
    LET r == acquire(World, poolConfig.maxVoices, poolConfig.stealingMode, now)
    IN  /\ Len(acquired) < MaxAcquires
        /\ \A v \in Indices(voices) : voices[v].isActive
        /\ Becomes(VoiceConfigure(r.W, r.voice, i))
        /\ lastAcq' = [how |-> r.how, voice |-> r.voice, error |-> "none"]
        /\ acquired' = Append(acquired, r.voice)
        /\ lastNoteOn' = NoNoteOn
        /\ UNCHANGED <<units, dur, env, now, poolConfig, seqLast, calls>>

\* synth.noteOn on the voice handed out last, at a time strictly later than
\* every earlier noteOn
CycleNoteOn ==
  \E time \in CallTimes :
    LET v == acquired[Len(acquired)]
        r == noteOn(World, v, AmpOne, time, now)
    IN  /\ acquired # <<>>
        /\ ~voices[v].isActive
        /\ time <= CycleMaxTime
        /\ \A w \in Indices(voices) : voices[w].phase # "none" => voices[w].startTime < time
        /\ Becomes(r.W)
        /\ lastAcq' = NoAcq
        /\ lastNoteOn' = [voice |-> v, error |-> r.error]
        /\ UNCHANGED <<units, dur, env, acquired, now, poolConfig, seqLast, calls>>

CycleNext ==
  \/ CycleAcquire
  \/ CycleNoteOn
  \/ AdvanceTime(CycleMaxTime)

CycleSpec == CycleInit /\ [][CycleNext]_vars

\* ------------------------------------------------------------------------
\* EnvSpec: Envelope.triggerAttack and triggerRelease applied to a gain
\* parameter, for every envelope configuration over EnvTimes, EnvLevels and
\* the two curves, at the current time or one quantum ahead
\* ------------------------------------------------------------------------
EnvTimes == {0, 1, 100}

EnvLevels == {0, AmpOne \div 2, AmpOne}

Curves == {"linear", "exponential"}

EnvConfigs ==
  [ attack : EnvTimes, decay : EnvTimes, sustain : EnvLevels, release : EnvTimes,
    attackCurve : Curves, decayCurve : Curves, releaseCurve : Curves ]

EnvVelocities == {AmpOne \div 2, AmpOne}

EnvMaxTime == EnvTicks * Quantum

EnvInit ==
  /\ now = 0
  /\ voices = <<>>
  /\ poolConfig = [maxVoices |-> 1, stealingMode |-> "oldest"]
  /\ timers = {}
  /\ lastAcq = NoAcq
  /\ seq = NewSequencer(DemoPattern, PatternBpm, FALSE)
  /\ scheduler = NewScheduler
  /\ song = NoSong
  /\ seqLast = NoSeqOp
  /\ calls = 0
  /\ dur = NoDur
  /\ env \in {EnvelopeOn(config, 0) : config \in EnvConfigs}
  /\ lastNoteOn = NoNoteOn
  /\ acquired = <<>>
  /\ UnitsInit

\* the events of the timeline that lie before time t
EventsBefore(param, t) == SelectSeq(param.events, LAMBDA x : x.time < t)

\* the value the timeline takes at time t, where the list of events
\* determines it without interpolating: an event sits at t, or no event lies
\* after t; <<>> elsewhere
ValueAt(param, t) ==
  IF \/ \E n \in DOMAIN param.events : param.events[n].time = t
     \/ \A n \in DOMAIN param.events : param.events[n].time <= t
  THEN <<processScheduledEventsUntil(param, t).value>>
  ELSE <<>>

\* envelope.triggerAttack(gain, t, v)
TriggerAttack ==
  \E t \in CallTimes, v \in EnvVelocities :
    LET r == triggerAttack(env.config, env.gain, t, v, now)
    IN  /\ env' = [ env EXCEPT
                      !.gain = r.param,
                      !.last = [ op |-> "attack", t |-> t, v |-> v, time |-> r.time,
                                 kept |-> EventsBefore(env.gain, t),
                                 cancelled |-> Len(env.gain.events)
                                                 - Len(EventsBefore(env.gain, t)),
                                 at |-> ValueAt(env.gain, t) ] ]
        /\ UNCHANGED <<units, now, voices, poolConfig, timers, seq, scheduler, song,
                       lastAcq, seqLast, calls, dur, lastNoteOn, acquired>>

\* envelope.triggerRelease(gain, t)
TriggerRelease ==
  \E t \in CallTimes :
    LET r == triggerRelease(env.config, env.gain, t, now)
    IN  /\ env' = [ env EXCEPT
                      !.gain = r.param,
                      !.last = [ op |-> "release", t |-> t, v |-> env.gain.value,
                                 time |-> r.time,
                                 kept |-> EventsBefore(env.gain, t),
                                 cancelled |-> Len(env.gain.events)
                                                 - Len(EventsBefore(env.gain, t)),
                                 at |-> ValueAt(env.gain, t) ] ]
        /\ UNCHANGED <<units, now, voices, poolConfig, timers, seq, scheduler, song,
                       lastAcq, seqLast, calls, dur, lastNoteOn, acquired>>

\* the clock advances by one quantum; the parameter consumes the events that
\* came due
EnvAdvanceTime ==
  /\ now < EnvMaxTime
  /\ now' = now + Quantum
  /\ env' = [ env EXCEPT !.gain = processScheduledEventsUntil(@, now'),
                         !.last = NoEnvCall ]
  /\ UNCHANGED <<units, voices, poolConfig, timers, seq, scheduler, song, lastAcq, seqLast,
                 calls, dur, lastNoteOn, acquired>>

EnvNext ==
  \/ TriggerAttack
  \/ TriggerRelease
  \/ EnvAdvanceTime

EnvSpec == EnvInit /\ [][EnvNext]_vars

\* ------------------------------------------------------------------------
\* DurSpec: Sequencer.calculateNoteDuration applied to the notes of every
\* lane of at most MaxLaneLen events ordered by step, in a pattern of
\* DurSteps steps
\* ------------------------------------------------------------------------
DurLane == "pulse1"

DurChoices == {<<>>, <<2>>}

DurEvents ==
  { NoteEvent(step, note, "lead", d) :
      step \in 0..(DurSteps - 1), note \in {"C4", NULL}, d \in DurChoices }

\* the lanes of at most n events, ordered by strictly increasing step
RECURSIVE DurLanesUpTo(_)
DurLanesUpTo(n) ==
  IF n = 0 THEN {<<>>}
  ELSE LET shorter == DurLanesUpTo(n - 1)
           longest == {lane \in shorter : Len(lane) = n - 1}
           ext     == {p \in longest \X DurEvents :
                         Len(p[1]) > 0 => p[1][Len(p[1])].step < p[2].step}
       IN  shorter \cup {Append(p[1], p[2]) : p \in ext}

DurLanes == DurLanesUpTo(MaxLaneLen) \ {<<>>}

DurPattern(lane, stepsPerBeat) ==
  [ steps |-> DurSteps, stepsPerBeat |-> stepsPerBeat,
    channels |-> [c \in Lanes |-> IF c = DurLane THEN lane ELSE <<>>] ]

DurInit ==
  InitWith({MaxVoices}, {"oldest"},
           { NewSequencer(DurPattern(lane, spb), PatternBpm, FALSE) :
               lane \in DurLanes, spb \in {1, 2} })

\* playNote's call calculateNoteDuration(channel, event, step), made for the
\* note event found at `step`
CalculateNoteDuration ==
  \E i \in DOMAIN seq.pattern.channels[DurLane] :
    LET event == seq.pattern.channels[DurLane][i]
    IN  /\ event.note # NULL
        /\ dur' = [ index |-> i,
                    result |-> calculateNoteDuration(seq, DurLane, event, event.step) ]
        /\ UNCHANGED <<units, now, voices, poolConfig, timers, seq, scheduler, song,
                       lastAcq, seqLast, calls, env, lastNoteOn, acquired>>

DurNext == CalculateNoteDuration

DurSpec == DurInit /\ [][DurNext]_vars

\* ------------------------------------------------------------------------
\* ChannelSpec: Voice.configure's choice of channel for every pairing of a
\* channel type with a waveform configuration, and the channel's noteOn.
\* ------------------------------------------------------------------------
PULSE_DUTY_CYCLES == {125, 250, 500, 750}

\* samples, in halves: below 0, around the rounding and clamping points,
\* above 15, and NaN
SampleHalves == {0 - 3, 0 - 1, 0, 1, 15, 16, 29, 30, 31, 33}

Samples == {Num(x) : x \in SampleHalves} \cup {NaN}

TableLengths == {0, WAVETABLE_SIZE - 1, WAVETABLE_SIZE, WAVETABLE_SIZE + 1}

Tables ==
  {[i \in 1..n |-> v] : n \in TableLengths, v \in Samples}
    \cup {[i \in 1..WAVETABLE_SIZE |-> Whole((i - 1) % (WAVETABLE_MAX_VALUE + 1))]}

Waveforms ==
  {WaveformConfig("pulse", d, <<>>, <<>>) :
     d \in {<<>>} \cup {<<x>> : x \in PULSE_DUTY_CYCLES}}
    \cup {WaveformConfig(t, <<>>, <<>>, <<>>) : t \in {"triangle", "sawtooth"}}
    \cup {WaveformConfig("custom", <<>>, w, <<>>) :
            w \in {<<>>} \cup {<<t>> : t \in Tables}}
    \cup {WaveformConfig("noise", <<>>, <<>>, m) :
            m \in {<<>>, <<"long">>, <<"short">>}}

Frequencies == {220, 440}

\* voice.configure(instrument), for the instrument's channel and waveform
ConfigureChannel ==
  \E channelType \in ChannelTypes, waveform \in Waveforms :
    LET r == configureChannel(channelType, waveform)
    IN  /\ wave' = [ op |-> "configure", channelType |-> channelType,
                     waveform |-> waveform, channel |-> r.channel,
                     error |-> r.error ]
        /\ UNCHANGED <<now, voices, poolConfig, timers, seq, scheduler, song,
                       lastAcq, seqLast, calls, dur, env, lastNoteOn, acquired,
                       noise, arp, audio, pitch, sound>>

\* channel.noteOn(frequency, time) on the configured channel
ChannelNoteOnCall ==
  \E frequency \in Frequencies :
    /\ wave.op = "configure"
    /\ wave.error = "none"
    /\ wave' = [wave EXCEPT !.op = "noteOn",
                            !.channel = channelNoteOn(@, frequency)]
    /\ UNCHANGED <<now, voices, poolConfig, timers, seq, scheduler, song,
                   lastAcq, seqLast, calls, dur, env, lastNoteOn, acquired,
                   noise, arp, audio, pitch, sound>>

ChannelInit == InitPool({MaxVoices}, {"oldest"}) /\ seq.loop

ChannelNext == ConfigureChannel \/ ChannelNoteOnCall

ChannelSpec == ChannelInit /\ [][ChannelNext]_vars

\* ------------------------------------------------------------------------
\* NoiseSpec: the loop of generateLFSRBuffer, one pass per step, for the long
\* and for the short buffer.
\* ------------------------------------------------------------------------
\* the variables other than those of the units
engineVars ==
  <<now, voices, poolConfig, timers, seq, scheduler, song, lastAcq, seqLast, calls,
    dur, env, lastNoteOn, acquired>>

NoiseInit ==
  /\ InitEngine({MaxVoices}, {"oldest"}, {NewSequencer(DemoPattern, PatternBpm, TRUE)})
  /\ wave = NoWave
  /\ arp = NoArp
  /\ audio = [A |-> NewRetroAudio, call |-> "none", n |-> 0]
  /\ pitch = NoPitch
  /\ sound = <<>>
  /\ \E b \in NoiseBuffers : noise = NewLFSRBuffer(b)

\* one pass of the loop: for (let i = 0; i < length; i++) { ... }
GenerateSample ==
  /\ noise.i < noise.buffer.length
  /\ noise' = [noise EXCEPT !.data = lfsrOutput(noise.lfsr),
                            !.lfsr = lfsrShift(noise.lfsr, noise.buffer.bits),
                            !.i = @ + 1]
  /\ UNCHANGED <<engineVars, wave, arp, audio, pitch, sound>>

NoiseNext == GenerateSample

NoiseSpec == NoiseInit /\ [][NoiseNext]_vars

\* ------------------------------------------------------------------------
\* ArpSpec: Arpeggiator.start for whole speeds (notes per second) and
\* durations (seconds).
\* ------------------------------------------------------------------------
ArpOffsets == {<<>>, <<0>>, <<0, 12>>, <<0, 4, 7>>, <<0, 3, 7, 10>>}

ArpSpeeds == {1, 12, 49, 60}

ArpDurations == {1, 2, 3}

ArpStartTimes == {0, 1}

\* arpeggiator.start(param, baseFreq, offsets, speed, startTime, duration)
ArpStart ==
  \E baseFreq \in Frequencies, offsets \in ArpOffsets, speed \in ArpSpeeds,
     startTime \in ArpStartTimes, duration \in ArpDurations :
    /\ arp' = [ op |-> "start",
                a |-> ArpeggiatorStart(arp.a, baseFreq, offsets, speed, startTime,
                                       duration),
                baseFreq |-> baseFreq, offsets |-> offsets, speed |-> speed,
                startTime |-> startTime, duration |-> duration ]
    /\ UNCHANGED <<engineVars, wave, noise, audio, pitch, sound>>

ArpInit == InitPool({MaxVoices}, {"oldest"}) /\ seq.loop

ArpNext == ArpStart

ArpSpec == ArpInit /\ [][ArpNext]_vars

\* ------------------------------------------------------------------------
\* PitchSpec: synth.noteOn for instruments with every combination of the
\* pitch effects, on a pulse and on a noise channel
\* ------------------------------------------------------------------------
PitchConfigs ==
  [ slide : {0, 2}, slideTime : {0, 100}, vibratoDepth : {0, 1},
    vibratoSpeed : {0, 5}, arpeggio : {<<>>, <<0, 4, 7>>},
    arpeggioSpeed : {<<>>, <<3>>} ]

PitchKinds == {"pulse", "noise"}

\* synth.noteOn(note, velocity, time)
PitchNoteOn ==
  \E kind \in PitchKinds, config \in {<<>>} \cup {<<c>> : c \in PitchConfigs},
     startTime \in ArpStartTimes, noteDuration \in {<<>>, <<1>>} :
    /\ pitch' = SynthPitchNoteOn(kind, config, startTime, noteDuration)
    /\ UNCHANGED <<engineVars, wave, noise, arp, audio, sound>>

PitchInit == InitPool({MaxVoices}, {"oldest"}) /\ seq.loop

PitchNext == PitchNoteOn

PitchSpec == PitchInit /\ [][PitchNext]_vars

\* ------------------------------------------------------------------------
\* AudioSpec: init, suspend, resume and dispose called one after the other
\* on a RetroAudio with no synth, sound or player, each call run to
\* completion; 'statechange' events are delivered at any later time.
\* ------------------------------------------------------------------------
AudioCall(name, A) ==
  /\ audio.n < MaxAudioCalls
  /\ audio' = [A |-> A, call |-> name, n |-> audio.n + 1]
  /\ UNCHANGED <<engineVars, wave, noise, arp, pitch, sound>>

\* await audio.init()
AudioInit == \E initial \in ContextStates : AudioCall("init", RetroAudioInit(audio.A, initial))

\* await audio.suspend()
AudioSuspend == AudioCall("suspend", AudioEngineSuspend(audio.A))

\* await audio.resume()
AudioResume == AudioCall("resume", AudioEngineResume(audio.A))

\* audio.dispose()
AudioDispose == AudioCall("dispose", RetroAudioDispose(audio.A))

\* a 'statechange' event reaches the listener
StateChangeEvent ==
  /\ audio.A.pending > 0
  /\ audio' = [audio EXCEPT !.A = handleStateChange(@), !.call = "statechange"]
  /\ UNCHANGED <<engineVars, wave, noise, arp, pitch, sound>>

AudioInit0 == InitPool({MaxVoices}, {"oldest"}) /\ seq.loop

AudioNext ==
  \/ AudioInit
  \/ AudioSuspend
  \/ AudioResume
  \/ AudioDispose
  \/ StateChangeEvent

AudioSpec == AudioInit0 /\ [][AudioNext]_vars

\* ------------------------------------------------------------------------
\* SfxSpec: one-shot sounds started by RetroAudio.playSfx, left to
\* themselves: the caller calls neither stop() nor fadeOut().  A duration is
\* <<>> when the SfxData has none, <<ms>> otherwise.
\* ------------------------------------------------------------------------
SfxInstruments == {"lead", "blip"}

SfxDurations == {<<>>, <<0>>, <<Quantum>>}

SfxMaxTime == SfxTicks * Quantum

\* MAX_RELEASE (5 s) plus the 100 ms buffer, and the buffer itself
MaxResolveDelay == 51 * SCHEDULER_INTERVAL
ResolveBuffer == SCHEDULER_INTERVAL

\* new SoundInstance(context, voice, duration), as the k-th sound
NewSoundInstance(W, voice, instrument, duration, k, clock) ==
  LET id == NewTimerId(W)
      timed == duration # <<>> /\ duration[1] > 0
  IN  [ W |-> IF timed
              THEN [W EXCEPT !.timers = @ \cup {[ id |-> id, kind |-> "duration",
                                                   due |-> clock + duration[1],
                                                   sound |-> k ]}]
              ELSE W,
        sound |-> [ voice |-> voice, isPlaying |-> TRUE, finished |-> FALSE,
                    durationTimeout |-> IF timed THEN id ELSE 0,
                    instrument |-> instrument, duration |-> duration ] ]

\* SoundInstance.triggerNoteOff(): [W, sound]
triggerNoteOff(W, snd, k, clock) ==
  LET W1 == VoiceNoteOff(W, snd.voice, clock, clock)
      current == W.voices[snd.voice].currentInstrument
      releaseTime == IF current # NULL THEN Instruments[current].envelope.release ELSE 0
      bufferMs == releaseTime + ResolveBuffer
      id == NewTimerId(W1)
  IN  IF ~snd.isPlaying THEN [W |-> W, sound |-> snd]
      ELSE [ W |-> [W1 EXCEPT !.timers = @ \cup {[ id |-> id, kind |-> "resolve",
                                                    due |-> clock + Min(bufferMs, MaxResolveDelay),
                                                    sound |-> k ]}],
             sound |-> [snd EXCEPT !.isPlaying = FALSE] ]

\* RetroAudio.playSfx(sfx): acquire; a null voice raises
\* VoiceLimitReachedError; otherwise configure, noteOn(frequency, 1, now) and
\* a new SoundInstance
SfxPlay ==
  \E i \in SfxInstruments, duration \in SfxDurations :
    LET r == acquire(World, poolConfig.maxVoices, poolConfig.stealingMode, now)
        W == IF r.voice = 0 THEN r.W
             ELSE VoiceNoteOn(VoiceConfigure(r.W, r.voice, i), r.voice, AmpOne, now, now)
        n == IF r.voice = 0 THEN [W |-> W, sound |-> <<>>]
             ELSE NewSoundInstance(W, r.voice, i, duration, Len(sound) + 1, now)
    IN  /\ Len(sound) < MaxSounds
        /\ now + (3 * Quantum) <= SfxMaxTime
        /\ Becomes(n.W)
        /\ sound' = IF r.voice = 0 THEN sound ELSE Append(sound, n.sound)
        /\ lastAcq' = [ how |-> r.how, voice |-> r.voice,
                        error |-> IF r.voice = 0 THEN "VoiceLimitReachedError"
                                  ELSE "none" ]
        /\ lastNoteOn' = NoNoteOn
        /\ UNCHANGED <<wave, noise, arp, audio, pitch, dur, env, acquired, now,
                       poolConfig, seqLast, calls>>

\* the duration timer of a SoundInstance runs: triggerNoteOff()
DurationTimerFires ==
  \E t \in timers :
    /\ t.kind = "duration"
    /\ t.due <= now
    /\ LET r == triggerNoteOff([World EXCEPT !.timers = @ \ {t}], sound[t.sound],
                               t.sound, now)
       IN  /\ Becomes(r.W)
           /\ sound' = [sound EXCEPT ![t.sound] = r.sound]
    /\ lastAcq' = NoAcq
    /\ lastNoteOn' = NoNoteOn
    /\ UNCHANGED <<wave, noise, arp, audio, pitch, dur, env, acquired, now,
                   poolConfig, seqLast, calls>>

\* the timer set by triggerNoteOff runs: this.resolveFinished()
ResolveTimerFires ==
  \E t \in timers :
    /\ t.kind = "resolve"
    /\ t.due <= now
    /\ timers' = timers \ {t}
    /\ sound' = [sound EXCEPT ![t.sound].finished = TRUE]
    /\ lastAcq' = NoAcq
    /\ lastNoteOn' = NoNoteOn
    /\ UNCHANGED <<wave, noise, arp, audio, pitch, dur, env, acquired, now,
                   poolConfig, seqLast, calls, voices, seq, scheduler, song>>

\* the clock moves on once the timers that are due have run
SfxAdvanceTime ==
  /\ \A t \in timers : t.due > now
  /\ AdvanceTime(SfxMaxTime)

SfxInit == InitPool({MaxVoices}, {"oldest", "none"}) /\ ~seq.loop

SfxNext ==
  \/ SfxPlay
  \/ DurationTimerFires
  \/ ResolveTimerFires
  \/ ReleaseTimerFires
  \/ SfxAdvanceTime

SfxSpec == SfxInit /\ [][SfxNext]_vars

\* SfxSpec on an event loop that keeps running: a timer whose delay has
\* elapsed is eventually run, and the audio clock keeps advancing
FairSfxSpec ==
  /\ SfxSpec
  /\ WF_vars(DurationTimerFires)
  /\ WF_vars(ResolveTimerFires)
  /\ WF_vars(ReleaseTimerFires)
  /\ WF_vars(SfxAdvanceTime)

\* ------------------------------------------------------------------------
\* Properties
\* ------------------------------------------------------------------------
AtCapacityAllActive ==
  /\ Len(voices) = poolConfig.maxVoices
  /\ \A w \in Indices(voices) : voices[w].isActive

\* C1: whatever the interleaving of acquire() with noteOn, noteOff, stop and
\* release-timer firings, the pool never holds more than maxVoices voices.
C1_PoolBound == Len(voices) <= poolConfig.maxVoices

\* an acquire() found the pool full and every voice Active, and stole one
C1_Witness ==
  /\ Len(voices) = poolConfig.maxVoices
  /\ lastAcq.how = "stolen"
  /\ \E w \in Indices(voices) : voices[w].isActive

\* C2: when acquire() is called at capacity with every voice Active, in mode
\* 'oldest' it returns a voice whose start time is the minimum over the Active
\* voices, and in mode 'quietest' one whose current amplitude is the minimum
\* over the Active voices.
C2_StealsMinimum ==
  [][ (AtCapacityAllActive /\ lastAcq' # NoAcq /\ poolConfig.stealingMode # "none")
        => /\ lastAcq'.how = "stolen"
           /\ lastAcq'.voice \in Indices(voices)
           /\ \A w \in Indices(voices) :
                /\ poolConfig.stealingMode = "oldest"
                     => voices[lastAcq'.voice].startTime <= voices[w].startTime
                /\ poolConfig.stealingMode = "quietest"
                     => currentAmplitude(voices[lastAcq'.voice])
                          <= currentAmplitude(voices[w]) ]_vars

\* mode 'quietest' stole a voice that was not the oldest one, while an older
\* voice keeps sounding
C2_Witness ==
  /\ lastAcq.how = "stolen"
  /\ poolConfig.stealingMode = "quietest"
  /\ \E w \in Indices(voices) :
       /\ voices[w].isActive
       /\ voices[w].startTime < voices[lastAcq.voice].startTime
       /\ currentAmplitude(voices[w]) > 0

\* C3: force-stop is authoritative: after Voice.stop(), no deferred
\* idle-transition scheduled by an earlier noteOff on that voice ever fires,
\* also when noteOff was issued more than once for the same note.
C3_StopCancelsEveryRelease ==
  [][ ~ \E t \in timers :
          /\ t.kind = "release"
          /\ t.preStop
          /\ t.due <= now
          /\ voices' = ReleaseTimeout(World, t).voices
          /\ timers' = timers \ {t} ]_vars

\* C4: configure() on a voice with a pending deferred idle-transition cancels
\* it: the transition never fires after configure() has returned.
C4_ConfigureCancelsRelease ==
  [][ ~ \E t \in timers :
          /\ t.kind = "release"
          /\ t.preConf
          /\ t.due <= now
          /\ voices' = ReleaseTimeout(World, t).voices
          /\ timers' = timers \ {t} ]_vars

\* C5: immediately after Sequencer.stop() returns, no note-off timer of the
\* sequencer and no deferred idle-transition timer of a voice it triggered is
\* pending, and every voice it triggered is Idle with amplitude 0.
C5_StopSilencesEverything ==
  seqLast.op = "stop" =>
    /\ \A t \in timers : t.kind \notin {"noteOff", "release"}
    /\ \A v \in Indices(voices) :
         voices[v].phase # "none" =>
           ~voices[v].isActive /\ currentAmplitude(voices[v]) = 0

C7_NoneModeFails ==
  [][ (AtCapacityAllActive /\ lastAcq' # NoAcq /\ poolConfig.stealingMode = "none")
        => /\ lastAcq' = [how |-> "fail", voice |-> 0, error |-> "VoiceLimitReachedError"]
           /\ UNCHANGED <<now, voices, poolConfig, timers, seq, scheduler>> ]_vars

\* createSynth / playSfx failed on a full pool of Active voices
C7_Witness ==
  /\ lastAcq.error = "VoiceLimitReachedError"
  /\ AtCapacityAllActive
  /\ poolConfig.stealingMode = "none"

\* C8: on a lane ordered by step, a note at step s sounds for its explicit
\* duration d (in steps) if given, otherwise until the step s' of the next
\* event of the lane (a note or a null note-off), otherwise, being the last
\* event, until the end of the pattern (pattern.steps - s).
C8_DurationInference ==
  dur.index # 0 =>
    LET lane == seq.pattern.channels[DurLane]
        i == dur.index
        s == lane[i].step
        stepMs == ((SecondsPerMinute * MsPerSecond) \div PatternBpm)
                    \div seq.pattern.stepsPerBeat
        expected == IF lane[i].duration # <<>> THEN lane[i].duration[1]
                    ELSE IF i < Len(lane) THEN lane[i + 1].step - s
                    ELSE seq.pattern.steps - s
    IN  dur.result = expected * stepMs

\* events at steps [0,4,8] without explicit duration: the note at step 0 was
\* given 4 steps
C8_Witness ==
  LET lane == seq.pattern.channels[DurLane]
  IN  /\ [i \in DOMAIN lane |-> lane[i].step] = <<0, 4, 8>>
      /\ \A i \in DOMAIN lane : lane[i].duration = <<>>
      /\ dur.index = 1
      /\ dur.result = 4 * secondsPerStep(seq.clock)

\* C9: the sequencer issues no noteOn for an inaudible lane (muted, or solo
\* set non-empty and not containing it); mute overrides solo; a lane is
\* audible exactly when it is not muted and the solo set is empty or
\* contains it.
C9_InaudibleLanesGetNoNoteOn ==
  /\ \A c \in Lanes :
       isChannelAudible(seq, c)
         <=> /\ c \notin seq.mutedChannels
             /\ (seq.soloedChannels = {} \/ c \in seq.soloedChannels)
  /\ seqLast.op = "schedule" =>
       \A c \in seqLast.lanes :
         /\ c \notin seq.mutedChannels
         /\ (seq.soloedChannels = {} \/ c \in seq.soloedChannels)

\* steps were scheduled while pulse1, which has a note on every step, was
\* muted: only the noise lane got a noteOn
C9_Witness ==
  /\ seqLast.op = "schedule"
  /\ seqLast.lanes = {"noise"}
  /\ "pulse1" \in seq.mutedChannels
  /\ seq.soloedChannels = {}

\* C10: setChannelMute(lane, true) called while a note started by the
\* sequencer is sounding on the lane force-stops it: when the call returns the
\* voice is Idle with amplitude 0.
C10_MuteForceStops ==
  [][ \A lane \in Lanes :
        LET v == ActiveGet(seq.activeVoices, lane).voice
        IN  ( /\ seqLast'.op = "mute"
              /\ lane \in seqLast'.lanes
              /\ v # 0
              /\ voices[v].isActive
              /\ currentAmplitude(voices[v]) > 0
              /\ \E i \in DOMAIN seq.pattern.channels[lane] :
                   seq.pattern.channels[lane][i].instrumentId
                     = voices[v].currentInstrument )
            => /\ ~voices'[v].isActive
               /\ currentAmplitude(voices'[v]) = 0 ]_vars

\* C11: when step advancement passes the last step: with loop enabled the
\* cursor wraps to 0, the loop callback fires once per wrap and playback
\* continues; with loop disabled the sequencer stops (isPlaying false, cursor
\* 0), every lane's active note is released and the end callback fires.
C11_PatternEnd ==
  [][ seqLast'.call \in {"play", "play-paused", "play-playing", "tick"} =>
        LET k == seqLast'.steps
            c == seq.currentStep
            n == seq.pattern.steps
        IN  IF seq.loop
            THEN /\ seqLast'.loops = IF c + k >= n THEN (c + k) \div n ELSE 0
                 /\ seqLast'.ends = 0
                 /\ seq'.currentStep = IF c + k >= n THEN (c + k) % n ELSE c + k
                 /\ k > 0 => /\ seq'.isPlaying
                             /\ scheduler'.isRunning
                             /\ \E t \in timers' : t.kind = "tick"
            ELSE IF c + k >= n
            THEN /\ c + k = n
                 /\ seqLast'.ends = 1
                 /\ seqLast'.loops = 0
                 /\ ~seq'.isPlaying
                 /\ seq'.currentStep = 0
                 /\ seq'.activeVoices = <<>>
                 /\ \A v \in Indices(voices') : voices'[v].phase # "on"
            ELSE /\ seqLast'.ends = 0
                 /\ seqLast'.loops = 0
                 /\ seq'.currentStep = c + k ]_vars

\* a scheduling pass wrapped the cursor of a looping pattern and called
\* onLoop once; playback goes on
C11_Witness ==
  /\ seqLast.call = "tick"
  /\ seqLast.loops = 1
  /\ seq.loop
  /\ seq.isPlaying
  /\ seq.currentStep = 0

\* C12: pause() leaves the playback cursor unchanged and a following play()
\* continues scheduling from that same step; stop() resets the cursor to step
\* 0; play() while already playing (and not paused) changes nothing.
C12_PauseKeepsStopResets ==
  [][ /\ seqLast'.call = "pause" => seq'.currentStep = seq.currentStep
      /\ seqLast'.call = "play-paused" =>
           /\ seqLast'.steps > 0
           /\ seqLast'.first = seq.currentStep
      /\ seqLast'.call = "stop" => seq'.currentStep = 0
      /\ seqLast'.call = "play-playing" =>
           UNCHANGED <<voices, timers, seq, scheduler>> ]_vars

\* play() resumed a paused sequencer in the middle of the pattern
C12_Witness ==
  /\ seqLast.call = "play-paused"
  /\ seqLast.first = 1
  /\ seqLast.steps > 0
  /\ seq.isPlaying

\* C13: after any sequence of play, pause, stop, seekToStep(n) for any integer
\* n, setPattern and scheduler ticks, currentStep is an integer in
\* [0, pattern.steps - 1].
C13_CursorInRange == seq.currentStep \in 0 .. (seq.pattern.steps - 1)

\* the voices playing a note of a lane of the pattern
LaneVoices(lane) ==
  { v \in Indices(voices) : voices[v].isActive /\ voices[v].lane = lane }

\* C14: during pattern playback at most one voice per lane is Active at any
\* time, so a playing pattern never occupies more than 4 voices of the pool.
C14_OneVoicePerLane == \A lane \in Lanes : Cardinality(LaneVoices(lane)) <= 1

\* C15: after SongPlayer.stop() returns, for any song and any playback
\* position, the player is not playing, currentPatternIndex is 0, the loaded
\* pattern is the first pattern of the sequence and the cursor is at step 0.
C15_SongStopResets ==
  (seqLast.call = "songStop" /\ ~seqLast.thrown) =>
     /\ ~isPlaying(World)
     /\ song.index = 0
     /\ song.pattern = song.sequence[1]
     /\ seq.pattern = song.patterns[song.sequence[1]]
     /\ seq.currentStep = 0

\* C16: when a pattern of a song ends naturally at sequence index i: if i+1
\* is within the sequence, playback continues with exactly the pattern at
\* index i+1 and onPatternChange fires once with (i+1, the id of that
\* pattern); if i is the last index and song.loop is set, playback continues
\* at loopPoint (default 0); otherwise playback stops and the index is reset
\* to 0.
C16_SongAdvances ==
  [][ (seqLast'.call \in {"play", "play-paused", "tick"} /\ seqLast'.ends > 0) =>
        LET i  == song.index
            lp == IF song.loopPoint # <<>> THEN song.loopPoint[1] ELSE 0
            continuesAt(j) ==
              /\ song'.index = j
              /\ song'.pattern = song.sequence[j + 1]
              /\ seq'.pattern = song.patterns[song.sequence[j + 1]]
              /\ seq'.isPlaying /\ ~seq'.isPaused
              /\ seqLast'.changes = << <<j, song.sequence[j + 1]>> >>
        IN  IF i + 1 < Len(song.sequence) THEN continuesAt(i + 1)
            ELSE IF song.loop THEN continuesAt(lp)
            ELSE /\ ~seq'.isPlaying
                 /\ song'.index = 0
                 /\ seqLast'.changes = <<>> ]_vars

\* the last event of the gain parameter's timeline
LastEvent == env.gain.events[Len(env.gain.events)]

\* C17: for every envelope configuration with attack, decay, release >= 0,
\* triggerAttack(param, t, v) returns t + attack + decay (hence a time
\* >= t + attack) and the last amplitude event it writes is the value
\* sustain*v at exactly that returned time; triggerRelease(param, t) returns
\* t + release (hence a time >= t).
C17_EnvelopeTimes ==
  /\ env.last.op = "attack" =>
       /\ env.last.time = env.last.t + env.config.attack + env.config.decay
       /\ env.last.time >= env.last.t + env.config.attack
       /\ LastEvent.time = env.last.time
       /\ LastEvent.value * AmpOne = env.config.sustain * env.last.v
  /\ env.last.op = "release" =>
       /\ env.last.time = env.last.t + env.config.release
       /\ env.last.time >= env.last.t

\* an attack with both phases exponential and of positive length, at half
\* velocity
C17_Witness ==
  /\ env.last.op = "attack"
  /\ env.config.attack > 1 /\ env.config.decay > 1
  /\ env.config.attackCurve = "exponential" /\ env.config.decayCurve = "exponential"
  /\ env.config.sustain * env.last.v = (AmpOne \div 4) * AmpOne
  /\ LastEvent.type = "exponentialRampToValueAtTime"

\* the events of the timeline written by the last call
Written == SubSeq(env.gain.events, Len(env.last.kept) + 1, Len(env.gain.events))

\* C18: after triggerRelease(param, t), for either release curve and for any
\* current amplitude (including 0 or below the exponential floor), the last
\* event on the amplitude timeline is the value exactly 0 at the returned end
\* time t + release, and no automation event written before the call
\* survives at a time >= t.
C18_ReleaseEndsAtZero ==
  env.last.op = "release" =>
    /\ LastEvent.value = 0
    /\ LastEvent.time = env.last.t + env.config.release
    /\ LastEvent.time = env.last.time
    /\ SubSeq(env.gain.events, 1, Len(env.last.kept)) = env.last.kept
    /\ Len(Written) \in {2, 3}
    /\ Written[1].type = "setValueAtTime" /\ Written[1].time = env.last.t
    /\ Len(Written) = 3 =>
         Written[2] = [ type |-> "exponentialRampToValueAtTime",
                        value |-> MIN_EXPONENTIAL_VALUE, time |-> LastEvent.time ]

\* an exponential release from an audible level that cancelled pending
\* automation
C18_Witness ==
  /\ env.last.op = "release"
  /\ env.config.releaseCurve = "exponential" /\ env.config.release > 1
  /\ env.last.v > MIN_EXPONENTIAL_VALUE
  /\ env.last.cancelled > 0
  /\ Len(Written) = 3

\* C19: pool with capacity 2 and mode 'oldest': after A is acquired and
\* triggered and then B (both Active), a third acquire returns A's voice and
\* that voice is Idle; when every acquired voice is triggered with noteOn at
\* a time strictly later than all earlier ones, successive acquires keep
\* alternating between the two slots (A, B, A, B, ...) and the pool never
\* holds more than 2 voices.
C19_OldestAlternates ==
  /\ Len(voices) <= 2
  /\ \A k \in DOMAIN acquired : acquired[k] = IF k % 2 = 1 THEN 1 ELSE 2
  /\ lastAcq.how = "stolen" =>
       /\ ~voices[lastAcq.voice].isActive
       /\ voices[lastAcq.voice].phase = "stopped"

\* the fourth acquisition stole B's voice, after the third had stolen A's
C19_Witness ==
  /\ Len(acquired) = 4
  /\ lastAcq = [how |-> "stolen", voice |-> 2, error |-> "none"]
  /\ acquired[3] = 1
  /\ voices[1].isActive /\ ~voices[2].isActive

\* C20: Voice.noteOn on a voice that was never configured raises an error
\* and leaves the voice unchanged: it stays Idle, its start time is not
\* updated, no pending timer is touched and no amplitude automation is
\* written.
C20_UnconfiguredNoteOnFails ==
  [][ (lastNoteOn'.voice # 0 /\ ~VoiceConfigured(voices[lastNoteOn'.voice])) =>
        /\ lastNoteOn'.error # "none"
        /\ voices' = voices
        /\ ~voices'[lastNoteOn'.voice].isActive
        /\ timers' = timers ]_vars

\* noteOn was called on a voice fresh from acquire() and failed
C20_Witness ==
  /\ lastNoteOn.voice # 0
  /\ lastNoteOn.error # "none"
  /\ voices[lastNoteOn.voice] = NewVoice

\* C21: when a note event references an instrument id that the lookup does
\* not resolve, the sequencer acquires no voice and schedules nothing for that
\* event, still processes the remaining lanes of the same step, and keeps
\* playing (the cursor advances and later steps are scheduled).
C21_MissingInstrumentSkipsNote ==
  [][ ( /\ seqLast'.call \in {"play", "play-paused", "tick"}
        /\ "wave" \in seqLast'.skipped )
      => /\ "wave" \notin seqLast'.lanes
         /\ \A v \in DOMAIN voices' : voices'[v].lane # "wave"
         /\ \A t \in timers' : t.kind = "noteOff" => t.channel # "wave"
         /\ ActiveGet(seq'.activeVoices, "wave") = NoSynth
         /\ ( isChannelAudible(seq, "noise") /\ poolConfig.stealingMode # "none" )
              => "noise" \in seqLast'.lanes
         /\ seqLast'.steps > 0
         /\ \/ seq'.isPlaying
            \/ ~seq.loop /\ seq.currentStep + seqLast'.steps >= seq.pattern.steps
         /\ seqLast'.first = 0 /\ seqLast'.steps = 1 => seq'.currentStep = 1
         /\ seqLast'.first = 0 /\ seqLast'.call # "tick" => seqLast'.steps = 2 ]_vars

\* a pass skipped the wave lane's note, played the noise lane's note of the
\* same step and went on to the next step
C21_Witness ==
  /\ seqLast.op = "schedule"
  /\ "wave" \in seqLast.skipped
  /\ "noise" \in seqLast.lanes
  /\ seqLast.first = 0
  /\ seqLast.steps = 2
  /\ seq.isPlaying

\* the waveform is not of the kind its channel is declared for
Mismatched ==
  /\ wave.op # "none"
  /\ WaveformKind(wave.waveform.type) # ChannelKind(wave.channelType)

\* C22: Voice.configure() with an instrument whose waveform kind does not
\* match its declared channel kind (a triangle waveform on pulse1, a pulse
\* waveform on the wave channel) is rejected with a configuration error; it
\* never ends with a channel that plays a silently substituted default
\* waveform or duty.
C22_MismatchRejected ==
  Mismatched =>
    /\ wave.error # "none"
    /\ wave.channel.oscillator = NoOscillator

\* a custom wavetable was supplied to the wave channel
CustomTableSupplied ==
  /\ wave.op # "none"
  /\ wave.channelType = "wave"
  /\ wave.waveform.type = "custom"
  /\ wave.waveform.wavetable # <<>>

\* C25: WaveChannel.setWaveform with type 'custom' rejects (throws for) any
\* supplied wavetable whose length is not exactly 32, and every sample it
\* stores is an integer in [0, 15] (rounded, then clamped).
C25_WavetableChecked ==
  CustomTableSupplied =>
    /\ Len(wave.waveform.wavetable[1]) # WAVETABLE_SIZE => wave.error # "none"
    /\ wave.error = "none" =>
         \A i \in DOMAIN wave.channel.wavetable :
           /\ IsInteger(wave.channel.wavetable[i])
           /\ wave.channel.wavetable[i].x >= 0
           /\ wave.channel.wavetable[i].x <= Half * WAVETABLE_MAX_VALUE

\* C26: a custom wavetable of 32 samples all equal to 8 (mid-level)
\* normalizes, through the map s -> (s / 7.5) - 1, to the all-zero signal
\* (every normalized sample is 0), independent of the requested frequency.
C26_MidLevelIsSilence ==
  ( /\ CustomTableSupplied
    /\ wave.op = "noteOn"
    /\ wave.waveform.wavetable[1] = [i \in 1..WAVETABLE_SIZE |-> Whole(8)] )
  => \A i \in DOMAIN wave.channel.oscillator.normalized :
       wave.channel.oscillator.normalized[i] = Num(0)

\* C23: the noise register, seeded with all ones and stepped by 'feedback =
\* bit0 XOR bit1, shift right, insert feedback at the top bit', first returns
\* to its seed after exactly 2^15 - 1 = 32767 steps in long mode (15 bits) and
\* after exactly 2^7 - 1 = 127 steps in short mode (7 bits), never reaching
\* the all-zero state, so the looped buffer of that length is exactly one full
\* period; every output sample is +1 or -1.
C23_LfsrPeriod ==
  /\ noise.lfsr # 0
  /\ noise.lfsr \in 1 .. lfsrSeed(noise.buffer.bits)
  /\ noise.i > 0 =>
       /\ noise.data \in {1, 0 - 1}
       /\ noise.lfsr = lfsrSeed(noise.buffer.bits)
            <=> noise.i = 2 ^ noise.buffer.bits - 1
  /\ noise.buffer.length = 2 ^ noise.buffer.bits - 1
  /\ noise.buffer.mode = "long" => noise.buffer.length = 32767
  /\ noise.buffer.mode = "short" => noise.buffer.length = 127

\* the short buffer is full and the register is back at its seed
C23_Witness ==
  /\ noise.buffer.mode = "short"
  /\ noise.i = noise.buffer.length
  /\ noise.lfsr = lfsrSeed(7)

\* C24: Arpeggiator.start with duration D and speed R (notes per second)
\* schedules exactly ceil(D*R) frequency-set events; event i (0-based) is at
\* absolute time start + i/R and sets baseFreq * 2^(offsets[i mod
\* len(offsets)]/12), so consecutive events are exactly 1/R apart and the
\* offsets are cycled in list order.  (D and R are whole numbers here, so
\* ceil(D*R) is D*R.)
C24_ArpeggioSteps ==
  (arp.op = "start" /\ Len(arp.offsets) > 0) =>
    /\ Len(arp.a.events) = arp.duration * arp.speed
    /\ \A n \in DOMAIN arp.a.events :
         /\ arp.a.events[n].i = n - 1
         /\ arp.a.events[n].baseFreq = arp.baseFreq
         /\ arp.a.events[n].semitones
              = arp.offsets[((n - 1) % Len(arp.offsets)) + 1]

\* C27: after any sequence of init, suspend, resume and dispose calls,
\* RetroAudio.state is 'uninitialized' before the first init() and after
\* dispose(), 'running' after init() and after resume(), and 'suspended'
\* after suspend() from running; dispose() may be called repeatedly without
\* error and leaves the state 'uninitialized'.  (resume() counts for an
\* engine that has a context; without one the first clause applies.)
C27_LifecycleState ==
  /\ audio.A.state = "uninitialized"
  /\ [][ /\ audio'.A.context = NoContext => audio'.A.state = "uninitialized"
         /\ audio'.call = "init" =>
              audio'.A.state = "running" /\ audio'.A.error = "none"
         /\ audio'.call = "resume" /\ audio.A.context # NoContext =>
              audio'.A.state = "running"
         /\ audio'.call = "suspend" /\ audio.A.state = "running" =>
              audio'.A.state = "suspended"
         /\ audio'.call = "dispose" =>
              /\ audio'.A.state = "uninitialized"
              /\ audio'.A.error = "none"
              /\ audio'.A.context = NoContext ]_vars

\* dispose() was called again on an engine already disposed of after use
C27_Witness ==
  /\ audio.call = "dispose"
  /\ audio.A.created > 0
  /\ audio.A.pending > 1
  /\ audio.A.state = "uninitialized"
  /\ audio.n = MaxAudioCalls

\* C28: once noteOn has been called on a configured voice, the voice stays
\* Active and its channel keeps running until a noteOff issued after that
\* noteOn completes its release, or stop()/dispose() is called: no
\* idle-transition timer created by a noteOff issued before that noteOn fires
\* afterwards, also when noteOff was called twice in a row before the
\* re-trigger.  (phase is "on" from a noteOn to the next noteOff or stop, so
\* a release timer firing in that phase was created before the noteOn.)
C28_NoteOnCancelsEveryRelease ==
  [][ ~ \E t \in timers :
          /\ t.kind = "release"
          /\ ~t.preConf
          /\ voices[t.voice].phase = "on"
          /\ voices[t.voice].isActive
          /\ t.due <= now
          /\ voices' = ReleaseTimeout(World, t).voices
          /\ ~voices'[t.voice].isActive
          /\ timers' = timers \ {t} ]_vars

\* C29: a note-off (a sequencer note-off timer, or Synth.noteOff through an
\* old handle) for a note whose voice has since been stolen and re-triggered
\* for another note never releases, cuts or deactivates the newer note.
\* (Synth ids grow with every createSynth: a pending note-off of a later
\* Synth on the same voice shows that the voice was re-triggered since.)
C29_StaleNoteOffIsInert ==
  [][ ~ \E t \in timers :
          /\ t.kind = "noteOff"
          /\ t.due <= now
          /\ \E t2 \in timers :
                /\ t2.kind = "noteOff"
                /\ t2.synth.voice = t.synth.voice
                /\ t2.synth.id > t.synth.id
          /\ voices[t.synth.voice].phase = "on"
          /\ voices[t.synth.voice].isActive
          /\ voices' = NoteOffTimeout(World, t, now).voices
          /\ voices'[t.synth.voice].phase = "off"
          /\ t \notin timers' ]_vars

\* C30: a voice returned by acquire() is not returned by another acquire()
\* until its holder has released it: two acquire() calls with no intervening
\* noteOn never hand the same voice to two holders (two consecutive
\* createSynth calls yield Synths with distinct voices).
C30_AcquiredVoiceIsHeld ==
  [][ ( /\ lastAcq.voice # 0
        /\ ~voices[lastAcq.voice].isActive
        /\ lastAcq'.voice # 0 )
      => lastAcq'.voice # lastAcq.voice ]_vars

\* C31: a scheduler tick's callback always runs to completion before another
\* tick begins: ticks never nest or interleave, also when playback is stopped
\* and restarted from inside an onEnd, onLoop or pattern-change path that
\* runs during the tick.
C31_TicksNeverNest == ~seqLast.nested

\* the effects that wrote the events of a timeline
Writers(timeline) == {timeline.events[n].by : n \in DOMAIN timeline.events}

\* C32: no two pitch effects write the same timeline: when an instrument
\* configures both slide and arpeggio, frequency events written by slide and
\* by arpeggio never coexist on the voice's frequency timeline; vibrato
\* writes only the detune timeline.
C32_OneEffectPerTimeline ==
  /\ Cardinality(Writers(pitch.frequency)) <= 1
  /\ "vibrato" \notin pitch.frequency.inputs
  /\ Writers(pitch.detune) = {}

\* C33: when triggerRelease(param, t) is called ahead of time (before clock
\* time t), the value anchored at t is the value the amplitude timeline has
\* at time t (raised to the exponential floor when it is below it), not the
\* parameter's value at the moment of the call.
C33_ReleaseAnchorsValueAtTime ==
  ( /\ env.last.op = "release"
    /\ env.last.t > now
    /\ env.last.at # <<>> )
  => \/ Written[1].value = env.last.at[1]
     \/ Written[1].value = MIN_EXPONENTIAL_VALUE /\ env.last.at[1] <= MIN_EXPONENTIAL_VALUE

\* C34: acquire() never stops (steals) an Active voice while any voice of the
\* pool is Idle or while the pool holds fewer than maxVoices voices, and it
\* never constructs a new voice while an Idle voice exists.
C34_IdleThenNewThenSteal ==
  [][ lastAcq' # NoAcq
        => LET idle == {i \in Indices(voices) : ~voices[i].isActive}
               room == Len(voices) < poolConfig.maxVoices
           IN  /\ (idle # {} \/ room)
                    => /\ lastAcq'.how # "stolen"
                       /\ \A i \in Indices(voices) :
                            voices[i].isActive => voices'[i].isActive
               /\ idle # {}
                    => /\ lastAcq'.how = "idle"
                       /\ lastAcq'.voice \in idle
                       /\ Len(voices') = Len(voices) ]_vars

\* a full pool with one Idle voice handed it out and left the Active ones alone
C34_Witness ==
  /\ lastAcq.how = "idle"
  /\ Len(voices) = poolConfig.maxVoices
  /\ Len(voices) >= 2
  /\ \E i \in Indices(voices) : i # lastAcq.voice /\ voices[i].isActive

\* C35: in non-loop playback, when the pattern ends naturally the sequencer
\* does not release any note, cancel its note-off or fire the end callback
\* before the clock time at which the pattern ends (the time of the step
\* after the last one): it does not act when the last step is merely
\* scheduled inside the lookahead window.
C35_EndsAtPatternEnd ==
  [][ ( /\ seqLast'.call \in {"play", "play-paused", "tick"}
        /\ ~seq.loop
        /\ seqLast'.steps > 0
        /\ seqLast'.ends > 0 )
        => now >= seq'.nextStepTime ]_vars

\* C36: for any sequence of play, pause and play again, the clock times at
\* which successive steps are scheduled to sound are strictly increasing in
\* cursor order: a step is never scheduled to sound earlier than (or together
\* with) a step that was scheduled before it.
C36_StepTimesIncrease == ~seqLast.early

\* C37: whenever the Scheduler is not running no tick timer is pending, and
\* whenever it is running at most one tick timer is pending, for any sequence
\* of start, stop, pause and timer firings, including stop() called from
\* inside the tick callback.
C37_OneTickTimer ==
  LET ticks == {t \in timers : t.kind = "tick"}
  IN  /\ ~scheduler.isRunning => ticks = {}
      /\ scheduler.isRunning => Cardinality(ticks) <= 1

\* C38: handling the end of a pattern in a song terminates: the call chain
\* handlePatternEnd -> loadCurrentPattern -> Sequencer.setPattern ->
\* Sequencer.stop -> onEnd -> handlePatternEnd is finite for every song,
\* including songs with loop = true (no call of the player runs the call
\* stack full).
C38_PatternEndTerminates == ~seqLast.thrown

\* the k-th sound has released its voice: the voice is Idle, or it sounds a
\* later sound
SoundFreed(k) ==
  \/ ~voices[sound[k].voice].isActive
  \/ \E j \in DOMAIN sound : j > k /\ sound[j].voice = sound[k].voice

\* C39: a sound started by playSfx with no duration and an envelope whose
\* sustain is 0 eventually frees its voice and resolves its `finished`
\* promise without the caller calling stop() or fadeOut(): the voice does not
\* stay Active forever.
C39_SelfTerminatingSfxEnds ==
  \A k \in 1..MaxSounds :
    ( /\ k \in DOMAIN sound
      /\ sound[k].duration = <<>>
      /\ Instruments[sound[k].instrument].envelope.sustain = 0 )
      ~> (k \in DOMAIN sound /\ sound[k].finished /\ SoundFreed(k))

\* C40: when Voice.configure() fails (it throws, e.g. for a custom wavetable
\* of the wrong length), the voice is left as it was before the call: a voice
\* that held a channel still holds that same channel, and its current
\* instrument (channel type and waveform) is the one it had.
C40_FailedConfigureChangesNothing ==
  [][ ( /\ wave'.op = "configure"
        /\ wave'.error # "none"
        /\ wave.channel # NoChannelOf )
        => /\ wave'.channel = wave.channel
           /\ wave'.channelType = wave.channelType
           /\ wave'.waveform = wave.waveform ]_vars

====
